---- MODULE Spec2Model ----
(***************************************************************************)
(* A model of the AIWC plugin of Oclgrind (WorkloadCharacterisation.cpp,   *)
(* held in src/src/clc.h from line 496 on): the host-transfer log, the     *)
(* thread-local WorkerState of each worker, the invocation aggregate that  *)
(* workGroupComplete merges into, and the metrics kernelEnd derives.       *)
(***************************************************************************)
EXTENDS Integers, Sequences, FiniteSets, TLC

VARIABLES
    plugin,     \* the WorkloadCharacterisation instance, the workers' THREAD_LOCAL
                \* m_state, what the plugin has written out and the state of the process
    kernel,     \* host: the kernel invocation in flight, "none" outside
    items,      \* host: worker -> the work-items of its work-group and their status
    hist,       \* history of the events delivered so far (read by no handler)
    replay,     \* host: the event stream it replays, if any, and how far it got
    threads     \* m_mtx and where each thread stands inside the callback it runs

vars == << plugin, kernel, items, hist, replay, threads >>

-----------------------------------------------------------------------------
(* Bounds of the model and the values the host draws its arguments from.   *)

NWorkers == 2
MaxItems == 2
MaxGroups == 2
MaxInstr == 2
MaxMemOps == 1
MaxBarriers == 1
MaxInvocations == 2
HostTransfers == 3
HostInvocations == 3

Workers == 1..NWorkers
Kernels == {"K1", "K2"}
Opcodes == {"add", "load", "store", "br"}
Labels == {"a", "b"}
Widths == {1, 4}
Lines == {0, 17, 42}
Blocks == {"%entry", "%then", "%else"}
Addrs == {4096, 4097}

(* enum AddressSpace of core/common.h, which the plugin includes (line 504) *)
AddrSpacePrivate == 0
AddrSpaceGlobal == 1
AddrSpaceConstant == 2
AddrSpaceLocal == 3
AddrSpaces == {AddrSpacePrivate, AddrSpaceGlobal, AddrSpaceConstant, AddrSpaceLocal}

-----------------------------------------------------------------------------
(* Sequences and maps.  A std::unordered_map whose entries are only ever   *)
(* created by operator[] followed by ++ or push_back is a total function   *)
(* with 0 (or the empty sequence) for an absent key.                       *)

RECURSIVE SeqSum(_)
SeqSum(s) ==
    IF s = << >> THEN 0
    ELSE IF Len(s) = 1 THEN s[1]
    ELSE LET half == Len(s) \div 2
         IN  SeqSum(SubSeq(s, 1, half)) + SeqSum(SubSeq(s, half + 1, Len(s)))

RECURSIVE MapSum(_, _)
MapSum(f, S) ==
    IF S = {} THEN 0
    ELSE LET k == CHOOSE x \in S : TRUE IN f[k] + MapSum(f, S \ {k})

MapTotal(f) == MapSum(f, DOMAIN f)
MapKeys(f) == {k \in DOMAIN f : f[k] # 0}
MapSize(f) == Cardinality(MapKeys(f))
BranchKeys(b) == {k \in DOMAIN b : b[k] # << >>}

RECURSIVE Count(_, _)
Count(s, x) ==
    IF s = << >> THEN 0
    ELSE (IF Head(s) = x THEN 1 ELSE 0) + Count(Tail(s), x)

Range(s) == {s[i] : i \in DOMAIN s}

EmptyCounts(K) == [k \in K |-> 0]

-----------------------------------------------------------------------------
(* The invocation aggregate and the WorkerState.                           *)

EmptyAggregate ==
    [ memoryOps |-> << >>,
      computeOps |-> EmptyCounts(Opcodes),
      branchOps |-> [l \in Lines |-> << >>],
      instructionsToBarrier |-> << >>,
      instructionWidth |-> EmptyCounts(Widths),
      instructionsPerWorkitem |-> << >>,
      instructionsBetweenLoadOrStore |-> << >>,
      loadInstructionLabels |-> EmptyCounts(Labels),
      storeInstructionLabels |-> EmptyCounts(Labels),
      threads_invoked |-> 0,
      barriers_hit |-> 0,
      global_memory_access |-> 0,
      local_memory_access |-> 0,
      constant_memory_access |-> 0 ]

(* THREAD_LOCAL m_state = {NULL}: no container allocated, every other      *)
(* member value-initialised.                                               *)
NullWorkerState ==
    [ allocated |-> FALSE,
      memoryOps |-> << >>,
      computeOps |-> EmptyCounts(Opcodes),
      branchOps |-> [l \in Lines |-> << >>],
      instructionsBetweenBarriers |-> << >>,
      instructionWidth |-> EmptyCounts(Widths),
      instructionsPerWorkitem |-> << >>,
      instructionsBetweenLoadOrStore |-> << >>,
      loadInstructionLabels |-> EmptyCounts(Labels),
      storeInstructionLabels |-> EmptyCounts(Labels),
      threads_invoked |-> 0,
      barriers_hit |-> 0,
      instruction_count |-> 0,
      workitem_instruction_count |-> 0,
      ops_between_load_or_store |-> 0,
      previous_instruction_is_branch |-> FALSE,
      target1 |-> "",
      target2 |-> "",
      branch_loc |-> 0,
      global_memory_access_count |-> 0,
      local_memory_access_count |-> 0,
      constant_memory_access_count |-> 0 ]

-----------------------------------------------------------------------------
(* The instructions the interpreter reports.  An instruction handle gives  *)
(* the opcode, the operand count and whether operands 1 and 2 are labels,  *)
(* the pointer operand's name and address space (loads and stores), the    *)
(* parent block, the two targets and the debug line (branches) and the     *)
(* result's element count.                                                 *)

Instr(op, nops, lbl, space, name, parent, t1, t2, line, num) ==
    [ opcode |-> op, numOperands |-> nops, labelOperands |-> lbl,
      addressSpace |-> space, ptrName |-> name, parent |-> parent,
      target1 |-> t1, target2 |-> t2, line |-> line, num |-> num ]

AddInstr(parent, num) == Instr("add", 2, FALSE, AddrSpacePrivate, "", parent, "", "", 0, num)
LoadInstr(parent, space, name) == Instr("load", 1, FALSE, space, name, parent, "", "", 0, 1)
StoreInstr(parent, space, name) == Instr("store", 2, FALSE, space, name, parent, "", "", 0, 1)
CondBr(parent, line) == Instr("br", 3, TRUE, AddrSpacePrivate, "", parent, "%then", "%else", line, 1)
Br(parent) == Instr("br", 1, FALSE, AddrSpacePrivate, "", parent, "", "", 0, 1)

-----------------------------------------------------------------------------
(* Host-transfer tracker.                                                  *)

(* A relabelling that does not stop at the pending entries.                *)
RelabelEveryEntry(h2d, n, name) == [j \in 1..Len(h2d) |-> name]

(* kernelBegin, lines 761-764: the last n entries take the new name.       *)
RelabelHostToDevice(h2d, n, name) ==
    LET end_of_list == Len(h2d) - 1
    IN  [j \in 1..Len(h2d) |->
            IF \E i \in 0..(n - 1) : j - 1 = end_of_list - i THEN name ELSE h2d[j]]

(* A kernelBegin that clears no more than the end of kernelEnd does.       *)
ClearWithoutWidths(a) ==
    [a EXCEPT !.memoryOps = << >>,
              !.computeOps = EmptyCounts(Opcodes),
              !.branchOps = [l \in Lines |-> << >>],
              !.instructionsToBarrier = << >>,
              !.instructionsPerWorkitem = << >>,
              !.instructionsBetweenLoadOrStore = << >>,
              !.loadInstructionLabels = EmptyCounts(Labels),
              !.storeInstructionLabels = EmptyCounts(Labels),
              !.threads_invoked = 0]

(* kernelBegin, lines 767-780.                                             *)
KernelBeginClear(a) ==
    [a EXCEPT !.memoryOps = << >>,
              !.computeOps = EmptyCounts(Opcodes),
              !.branchOps = [l \in Lines |-> << >>],
              !.instructionsToBarrier = << >>,
              !.instructionWidth = EmptyCounts(Widths),
              !.instructionsPerWorkitem = << >>,
              !.instructionsBetweenLoadOrStore = << >>,
              !.loadInstructionLabels = EmptyCounts(Labels),
              !.storeInstructionLabels = EmptyCounts(Labels),
              !.threads_invoked = 0,
              !.barriers_hit = 0,
              !.global_memory_access = 0,
              !.local_memory_access = 0,
              !.constant_memory_access = 0]

(* kernelEnd, lines 1168-1177.                                             *)
KernelEndClear(a) ==
    [a EXCEPT !.memoryOps = << >>,
              !.computeOps = EmptyCounts(Opcodes),
              !.branchOps = [l \in Lines |-> << >>],
              !.instructionsToBarrier = << >>,
              !.instructionsPerWorkitem = << >>,
              !.threads_invoked = 0,
              !.instructionsBetweenLoadOrStore = << >>,
              !.loadInstructionLabels = EmptyCounts(Labels),
              !.storeInstructionLabels = EmptyCounts(Labels)]

(* std::unique: each run of equal adjacent elements keeps its first.       *)
RECURSIVE Unique(_)
Unique(s) ==
    IF Len(s) <= 1 THEN s
    ELSE LET r == Unique(Tail(s))
         IN  IF Head(s) = Head(r) THEN r ELSE << Head(s) >> \o r

(* The destructor's rows, lines 555-563 and 586-591.                       *)
TransferRows(metric, copies) ==
    LET x == Unique(copies)
    IN  [i \in 1..Len(x) |->
            [metric |-> metric, kernel |-> x[i], count |-> Count(copies, x[i])]]

TransferSummary(h2d, d2h) ==
    TransferRows("transfer: host to device", h2d)
        \o TransferRows("transfer: device to host", d2h)

-----------------------------------------------------------------------------
(* Worker-local accumulator: what each hook does to the WorkerState of the *)
(* thread it runs on.                                                      *)

WMemoryLoad(ws, space, address) ==
    IF space # AddrSpacePrivate
    THEN [ws EXCEPT !.memoryOps = Append(@, address)] ELSE ws

WMemoryStore(ws, space, address) ==
    IF space # AddrSpacePrivate
    THEN [ws EXCEPT !.memoryOps = Append(@, address)] ELSE ws

(* An atomic load recorded whatever its region.                            *)
RecordEveryAtomicLoad(ws, space, address) ==
    [ws EXCEPT !.memoryOps = Append(@, address)]

WMemoryAtomicLoad(ws, space, address) ==
    IF space # 0
    THEN [ws EXCEPT !.memoryOps = Append(@, address)] ELSE ws

WMemoryAtomicStore(ws, space, address) ==
    IF space # 0
    THEN [ws EXCEPT !.memoryOps = Append(@, address)] ELSE ws

(* lines 637-639 *)
CountOpcode(ws, ins) == [ws EXCEPT !.computeOps[ins.opcode] = @ + 1]

(* A classification of the loads alone.                                    *)
ClassifyLoads(ws, ins) ==
    IF ins.opcode = "load"
    THEN CASE ins.addressSpace = AddrSpaceLocal ->
                [ws EXCEPT !.local_memory_access_count = @ + 1]
           [] ins.addressSpace = AddrSpaceGlobal ->
                [ws EXCEPT !.global_memory_access_count = @ + 1]
           [] ins.addressSpace = AddrSpaceConstant ->
                [ws EXCEPT !.constant_memory_access_count = @ + 1]
           [] OTHER -> ws
    ELSE ws

(* lines 643-674.  The load is read through a StoreInst pointer and the    *)
(* store through a LoadInst pointer (lines 647, 651); both classes take    *)
(* the pointer operand from the last Use in front of the instruction, so   *)
(* getPointerAddressSpace() yields the space of the pointer operand of     *)
(* either.                                                                 *)
ClassifyMemoryInst(ws, ins) ==
    IF ins.opcode \in {"load", "store"}
    THEN CASE ins.addressSpace = AddrSpaceLocal ->
                [ws EXCEPT !.local_memory_access_count = @ + 1]
           [] ins.addressSpace = AddrSpaceGlobal ->
                [ws EXCEPT !.global_memory_access_count = @ + 1]
           [] ins.addressSpace = AddrSpaceConstant ->
                [ws EXCEPT !.constant_memory_access_count = @ + 1]
           [] OTHER -> ws
    ELSE ws

(* A distance that leaves out the load or store itself.                    *)
ReorderDistanceBetween(ws, ins) ==
    LET n == ws.ops_between_load_or_store
    IN  IF ins.opcode = "load"
        THEN [ws EXCEPT !.loadInstructionLabels[ins.ptrName] = @ + 1,
                        !.instructionsBetweenLoadOrStore = Append(@, n),
                        !.ops_between_load_or_store = 0]
        ELSE IF ins.opcode = "store"
        THEN [ws EXCEPT !.storeInstructionLabels[ins.ptrName] = @ + 1,
                        !.instructionsBetweenLoadOrStore = Append(@, n),
                        !.ops_between_load_or_store = 0]
        ELSE [ws EXCEPT !.ops_between_load_or_store = n + 1]

(* lines 677-688 *)
ReorderDistance(ws, ins) ==
    LET n == ws.ops_between_load_or_store + 1
    IN  IF ins.opcode = "load"
        THEN [ws EXCEPT !.loadInstructionLabels[ins.ptrName] = @ + 1,
                        !.instructionsBetweenLoadOrStore = Append(@, n),
                        !.ops_between_load_or_store = 0]
        ELSE IF ins.opcode = "store"
        THEN [ws EXCEPT !.storeInstructionLabels[ins.ptrName] = @ + 1,
                        !.instructionsBetweenLoadOrStore = Append(@, n),
                        !.ops_between_load_or_store = 0]
        ELSE [ws EXCEPT !.ops_between_load_or_store = n]

(* A test of the first target only.                                        *)
BranchErrorOffFirstTarget(ws, ins) ==
    /\ ws.previous_instruction_is_branch
    /\ ins.parent # ws.target1

(* line 691-704: does the instruction after a conditional branch belong to *)
(* neither target?                                                         *)
BranchError(ws, ins) ==
    /\ ws.previous_instruction_is_branch
    /\ ins.parent # ws.target1
    /\ ins.parent # ws.target2

(* lines 691-706, when no error is raised *)
ResolveBranch(ws, ins) ==
    IF ws.previous_instruction_is_branch
    THEN [ws EXCEPT !.branchOps[ws.branch_loc] =
                        IF ins.parent = ws.target1 THEN Append(@, TRUE)
                        ELSE IF ins.parent = ws.target2 THEN Append(@, FALSE)
                        ELSE @,
                    !.previous_instruction_is_branch = FALSE]
    ELSE ws

(* A br of any number of operands taken for a conditional branch.          *)
RecordAnyBranch(ws, ins) ==
    IF ins.opcode = "br"
    THEN [ws EXCEPT !.previous_instruction_is_branch = TRUE,
                    !.target1 = ins.target1,
                    !.target2 = ins.target2,
                    !.branch_loc = ins.line]
    ELSE ws

(* lines 708-723 *)
RecordBranch(ws, ins) ==
    IF ins.opcode = "br" /\ ins.numOperands = 3 /\ ins.labelOperands
    THEN [ws EXCEPT !.previous_instruction_is_branch = TRUE,
                    !.target1 = ins.target1,
                    !.target2 = ins.target2,
                    !.branch_loc = ins.line]
    ELSE ws

(* lines 726-727 *)
CountInstruction(ws) ==
    [ws EXCEPT !.instruction_count = @ + 1,
               !.workitem_instruction_count = @ + 1]

(* A width noted as seen, not counted.                                     *)
NoteWidth(ws, ins) == [ws EXCEPT !.instructionWidth[ins.num] = 1]

(* line 730 *)
CountWidth(ws, ins) == [ws EXCEPT !.instructionWidth[ins.num] = @ + 1]

(* instructionExecuted up to the branch check, and the whole of it.        *)
InstructionPrefix(ws, ins) ==
    ReorderDistance(ClassifyMemoryInst(CountOpcode(ws, ins), ins), ins)

WInstructionExecuted(ws, ins) ==
    CountWidth(
        CountInstruction(
            RecordBranch(ResolveBranch(InstructionPrefix(ws, ins), ins), ins)),
        ins)

(* A barrier that is counted and pushes no entry.                          *)
BarrierNotPushed(ws) ==
    [ws EXCEPT !.barriers_hit = @ + 1,
               !.instruction_count = 0]

WWorkItemBarrier(ws) ==
    [ws EXCEPT !.barriers_hit = @ + 1,
               !.instructionsBetweenBarriers = Append(@, ws.instruction_count),
               !.instruction_count = 0]

WWorkItemClearBarrier(ws) == [ws EXCEPT !.instruction_count = 0]

(* A workItemBegin that does not count the work-item.                      *)
BeginUncounted(ws) ==
    [ws EXCEPT !.instruction_count = 0,
               !.workitem_instruction_count = 0,
               !.ops_between_load_or_store = 0]

WWorkItemBegin(ws) ==
    [ws EXCEPT !.threads_invoked = @ + 1,
               !.instruction_count = 0,
               !.workitem_instruction_count = 0,
               !.ops_between_load_or_store = 0]

WWorkItemComplete(ws) ==
    [ws EXCEPT !.instructionsBetweenBarriers = Append(@, ws.instruction_count),
               !.instructionsPerWorkitem = Append(@, ws.workitem_instruction_count)]

WWorkGroupBegin(ws) ==
    [ws EXCEPT !.allocated = TRUE,
               !.memoryOps = << >>,
               !.computeOps = EmptyCounts(Opcodes),
               !.branchOps = [l \in Lines |-> << >>],
               !.instructionsBetweenBarriers = << >>,
               !.instructionWidth = EmptyCounts(Widths),
               !.instructionsPerWorkitem = << >>,
               !.instructionsBetweenLoadOrStore = << >>,
               !.loadInstructionLabels = EmptyCounts(Labels),
               !.storeInstructionLabels = EmptyCounts(Labels),
               !.threads_invoked = 0,
               !.instruction_count = 0,
               !.barriers_hit = 0,
               !.constant_memory_access_count = 0,
               !.local_memory_access_count = 0,
               !.global_memory_access_count = 0,
               !.previous_instruction_is_branch = FALSE,
               !.target1 = "",
               !.target2 = "",
               !.branch_loc = 0]

-----------------------------------------------------------------------------
(* Group merger: workGroupComplete, under lock_guard<mutex> lock(m_mtx).   *)

AddCounts(f, g) == [k \in DOMAIN f |-> f[k] + g[k]]

(* The worker's booleans put in front of the aggregate's.                  *)
MergeBranchOpsInFront(b, wb) == [l \in DOMAIN b |-> wb[l] \o b[l]]

(* lines 1233-1235 *)
MergeBranchOps(b, wb) == [l \in DOMAIN b |-> b[l] \o wb[l]]

(* A merge that leaves out the labels of the stores.                       *)
MergeWithoutStoreLabels(a, ws) ==
    [a EXCEPT !.computeOps = AddCounts(@, ws.computeOps),
              !.memoryOps = @ \o ws.memoryOps,
              !.branchOps = MergeBranchOps(@, ws.branchOps),
              !.threads_invoked = @ + ws.threads_invoked,
              !.instructionsToBarrier = @ \o ws.instructionsBetweenBarriers,
              !.barriers_hit = @ + ws.barriers_hit,
              !.instructionWidth = AddCounts(@, ws.instructionWidth),
              !.instructionsPerWorkitem = @ \o ws.instructionsPerWorkitem,
              !.instructionsBetweenLoadOrStore = @ \o ws.instructionsBetweenLoadOrStore,
              !.loadInstructionLabels = AddCounts(@, ws.loadInstructionLabels),
              !.constant_memory_access = @ + ws.constant_memory_access_count,
              !.local_memory_access = @ + ws.local_memory_access_count,
              !.global_memory_access = @ + ws.global_memory_access_count]

(* lines 1225-1267: the aggregate after the merge *)
MergeWorker(a, ws) ==
    [a EXCEPT !.computeOps = AddCounts(@, ws.computeOps),
              !.memoryOps = @ \o ws.memoryOps,
              !.branchOps = MergeBranchOps(@, ws.branchOps),
              !.threads_invoked = @ + ws.threads_invoked,
              !.instructionsToBarrier = @ \o ws.instructionsBetweenBarriers,
              !.barriers_hit = @ + ws.barriers_hit,
              !.instructionWidth = AddCounts(@, ws.instructionWidth),
              !.instructionsPerWorkitem = @ \o ws.instructionsPerWorkitem,
              !.instructionsBetweenLoadOrStore = @ \o ws.instructionsBetweenLoadOrStore,
              !.loadInstructionLabels = AddCounts(@, ws.loadInstructionLabels),
              !.storeInstructionLabels = AddCounts(@, ws.storeInstructionLabels),
              !.constant_memory_access = @ + ws.constant_memory_access_count,
              !.local_memory_access = @ + ws.local_memory_access_count,
              !.global_memory_access = @ + ws.global_memory_access_count]

(* line 1230: the only worker container the merge clears *)
WWorkGroupComplete(ws) == [ws EXCEPT !.memoryOps = << >>]

-----------------------------------------------------------------------------
(* Report builder: the metrics kernelEnd derives from the aggregate.       *)
(* A quotient of two counts is kept as the reduced fraction << n, d >>;    *)
(* d = 0 stands for the NaN (n = 0) or infinity (n > 0) the division of    *)
(* doubles yields.                                                         *)

m == 16

RECURSIVE Gcd(_, _)
Gcd(x, y) == IF y = 0 THEN x ELSE Gcd(y, x % y)

Frac(n, d) ==
    IF d = 0 THEN << (IF n = 0 THEN 0 ELSE 1), 0 >>
    ELSE LET g == Gcd(n, d) IN << n \div g, d \div g >>

Min2(x, y) == IF x <= y THEN x ELSE y

RECURSIVE Insert(_, _)
Insert(x, s) ==
    IF s = << >> THEN << x >>
    ELSE IF x <= Head(s) THEN << x >> \o s
    ELSE << Head(s) >> \o Insert(x, Tail(s))

(* sort(v.begin(), v.end()) *)
RECURSIVE SortAsc(_)
SortAsc(s) == IF s = << >> THEN s ELSE Insert(Head(s), SortAsc(Tail(s)))

Reverse(s) == [i \in 1..Len(s) |-> s[Len(s) + 1 - i]]

(* The counts of a map's entries, as a sequence in some order. *)
RECURSIVE ValuesOf(_, _)
ValuesOf(f, S) ==
    IF S = {} THEN << >>
    ELSE LET k == CHOOSE x \in S : TRUE IN << f[k] >> \o ValuesOf(f, S \ {k})

(* The counts, smallest first.                                             *)
CountsAscending(f) == SortAsc(ValuesOf(f, DOMAIN f))

(* std::partial_sort_copy by descending count: the counts, largest first *)
SortedCounts(f) == Reverse(SortAsc(ValuesOf(f, DOMAIN f)))

(* The count rounded down.                                                 *)
Floor90(n) == (9 * n) \div 10

(* (unsigned)ceil(n * 0.9) *)
Ceil90(n) == (9 * n + 9) \div 10

(* while (count < significant) { count += sorted[i].second; i++; } *)
RECURSIVE CoverLoop(_, _, _, _)
CoverLoop(sorted, i, count, significant) ==
    IF count < significant
    THEN CoverLoop(sorted, i + 1, count + sorted[i + 1], significant)
    ELSE i

(* Every entry taken.                                                      *)
CoverAll(sorted) == Len(sorted)

Cover90(sorted) == CoverLoop(sorted, 0, 0, Ceil90(SeqSum(sorted)))

(* The middle of the entries in the order they were appended.              *)
MedianUnsorted(v) ==
    LET size == Len(v)
    IN  IF size % 2 = 0
        THEN (v[size \div 2] + v[size \div 2 + 1]) \div 2
        ELSE v[size \div 2 + 1]

(* lines 869-877 and 891-899 *)
Median(v) ==
    LET a == SortAsc(v)
        size == Len(a)
    IN  IF size % 2 = 0
        THEN (a[size \div 2] + a[size \div 2 + 1]) \div 2
        ELSE a[size \div 2 + 1]

MinElement(v) == CHOOSE x \in Range(v) : \A y \in Range(v) : x <= y
MaxElement(v) == CHOOSE x \in Range(v) : \A y \in Range(v) : y <= x
MinKey(f) == CHOOSE x \in MapKeys(f) : \A y \in MapKeys(f) : x <= y
MaxKey(f) == CHOOSE x \in MapKeys(f) : \A y \in MapKeys(f) : y <= x

RECURSIVE WeightedSum(_, _)
WeightedSum(f, S) ==
    IF S = {} THEN 0
    ELSE LET k == CHOOSE x \in S : TRUE IN f[k] * k + WeightedSum(f, S \ {k})

Pow2(k) == 2 ^ k

(* A histogram that notes which addresses occur, not how often.            *)
AddressSeen(ops, nskip) ==
    [local_addr \in {ops[i] \div (2 ^ nskip) : i \in DOMAIN ops} |-> 1]

(* lines 937-943: local_address_count[nskip] after the loop over memoryOps *)
RECURSIVE AddressCount(_, _)
AddressCount(ops, nskip) ==
    IF ops = << >> THEN << >>
    ELSE LET h == AddressCount(SubSeq(ops, 1, Len(ops) - 1), nskip)
             local_addr == ops[Len(ops)] \div Pow2(nskip)
         IN  IF local_addr \in DOMAIN h
             THEN [h EXCEPT ![local_addr] = @ + 1]
             ELSE h @@ (local_addr :> 1)

(* One term for every access, not for every address.                       *)
ProbabilityPerAccess(sorted_count) ==
    [i \in 1..SeqSum(sorted_count) |-> Frac(1, SeqSum(sorted_count))]

(* lines 979-984: the probabilities prob whose -prob * log2(prob) add up   *)
(* to mem_entropy, one for every entry of sorted_count.  The entropy is    *)
(* kept as these terms: log2 has no exact value but at prob = 1, where the *)
(* term is 0, and every term of a prob below 1 is positive.                *)
Probabilities(sorted_count) ==
    [i \in DOMAIN sorted_count |-> Frac(sorted_count[i], SeqSum(sorted_count))]

EntropyIsZero(probs) == \A i \in DOMAIN probs : probs[i] = Frac(1, 1)

(* lines 1076-1083: the patterns of one branch line and their occurrences *)
Windows(outcomes) ==
    [i \in 1..(Len(outcomes) - (m - 1)) |-> SubSeq(outcomes, i, i + m - 1)]

Taken(pattern) == Count(pattern, TRUE)

(* The probability of taken itself, in units of 1 / m.                     *)
TakenShareTimesM(pattern) == Taken(pattern)

(* 2 * min(p, 1 - p), in units of 1 / m *)
LinearEntropyTimesM(pattern) == 2 * Min2(Taken(pattern), m - Taken(pattern))

(* lines 1069-1103, over the windows of every line of at least m outcomes *)
RECURSIVE EntropySum(_, _)
EntropySum(b, S) ==
    IF S = {} THEN 0
    ELSE LET l == CHOOSE x \in S : TRUE
             w == Windows(b[l])
         IN  SeqSum([i \in DOMAIN w |-> LinearEntropyTimesM(w[i])])
                 + EntropySum(b, S \ {l})

LongLines(b) == {l \in DOMAIN b : Len(b[l]) >= m}

(* A pattern counted once however often it occurs.                        *)
PatternsSeen(outcomes) == [pattern \in Range(Windows(outcomes)) |-> 1]

(* lines 1075-1083: the map H of a branch line, from each history pattern  *)
(* to its number of occurrences.                                           *)
H(outcomes) ==
    LET w == Windows(outcomes)
    IN  [pattern \in Range(w) |-> Cardinality({i \in DOMAIN w : w[i] = pattern})]

(* N after the loop of lines 1069-1103: N += number_of_occurances for every *)
(* pattern of every line of at least m outcomes.                           *)
RECURSIVE WindowCount(_, _)
WindowCount(b, S) ==
    IF S = {} THEN 0
    ELSE LET l == CHOOSE x \in S : TRUE
         IN  MapTotal(H(b[l])) + WindowCount(b, S \ {l})

(* The average without the test for a NaN.                                 *)
AverageEntropyUnguarded(b) ==
    Frac(EntropySum(b, LongLines(b)), m * WindowCount(b, LongLines(b)))

(* lines 1104-1107 *)
AverageEntropy(b) ==
    LET N == WindowCount(b, LongLines(b))
    IN  IF N = 0 THEN << 0, 1 >>
        ELSE Frac(EntropySum(b, LongLines(b)), m * N)

BranchLengths(b) == [l \in DOMAIN b |-> Len(b[l])]

NoReport ==
    [ emitted |-> FALSE ]

(* lines 865-866, 874-876, 887-888, 896-898, 908-909 read an element of    *)
(* m_instructionsToBarrier, m_instructionsPerWorkitem, m_instructionWidth  *)
(* and of the sorted copies: an invalid access when one of them is empty.  *)
InvalidRead(a) ==
    \/ a.instructionsToBarrier = << >>
    \/ a.instructionsPerWorkitem = << >>
    \/ MapSize(a.instructionWidth) = 0

Report(a) ==
    LET sorted_ops == SortedCounts(a.computeOps)
        total_instruction_count == SeqSum(sorted_ops)
        simd_sum == WeightedSum(a.instructionWidth, DOMAIN a.instructionWidth)
        simd_num == MapTotal(a.instructionWidth)
        local_address_count == [nskip \in 0..10 |-> AddressCount(a.memoryOps, nskip)]
        sorted_count == SortedCounts(local_address_count[0])
        memory_access_count == SeqSum(sorted_count)
        total_memory_access ==
            a.global_memory_access + a.local_memory_access + a.constant_memory_access
        sorted_branch_ops == SortedCounts(BranchLengths(a.branchOps))
    IN  [ emitted |-> TRUE,
          major_operations |-> Cover90(sorted_ops),
          total_instruction_count |-> total_instruction_count,
          freedom_to_reorder |->
              Frac(SeqSum(a.instructionsBetweenLoadOrStore),
                   Len(a.instructionsBetweenLoadOrStore)),
          resource_pressure |->
              Frac(MapTotal(a.storeInstructionLabels) + MapTotal(a.loadInstructionLabels),
                   a.threads_invoked),
          threads_invoked |-> a.threads_invoked,
          granularity |-> Frac(1, a.threads_invoked),
          barriers_hit |-> a.barriers_hit,
          itb_min |-> MinElement(a.instructionsToBarrier),
          itb_max |-> MaxElement(a.instructionsToBarrier),
          itb_median |-> Median(a.instructionsToBarrier),
          barriers_per_instruction |->
              Frac(a.barriers_hit + a.threads_invoked, total_instruction_count),
          ipt_min |-> MinElement(a.instructionsPerWorkitem),
          ipt_max |-> MaxElement(a.instructionsPerWorkitem),
          ipt_median |-> Median(a.instructionsPerWorkitem),
          simd_min |-> MinKey(a.instructionWidth),
          simd_max |-> MaxKey(a.instructionWidth),
          simd_sum |-> simd_sum,
          simd_mean |-> Frac(simd_sum, simd_num),
          instructions_per_operand |-> Frac(total_instruction_count, simd_sum),
          address_count_total |->
              [nskip \in 0..10 |->
                  MapTotal(local_address_count[nskip])],
          memory_access_count |-> memory_access_count,
          total_memory_footprint |-> Cardinality(DOMAIN local_address_count[0]),
          unique_memory_addresses |-> Cover90(sorted_count),
          mem_entropy |-> Probabilities(sorted_count),
          global_memory_access |-> a.global_memory_access,
          local_memory_access |-> a.local_memory_access,
          constant_memory_access |-> a.constant_memory_access,
          relative_local |-> Frac(a.local_memory_access * 100, total_memory_access),
          relative_constant |-> Frac(a.constant_memory_access * 100, total_memory_access),
          unique_branches |-> Cardinality(BranchKeys(a.branchOps)),
          unique_branch_addresses |-> Cover90(sorted_branch_ops),
          average_entropy |-> AverageEntropy(a.branchOps) ]

-----------------------------------------------------------------------------
(* The plugin: one record for the instance, the WorkerStates and what the  *)
(* process has emitted; one operator per hook, from the state before to    *)
(* the state after.                                                        *)

(* The working directory: the files aiwc_<base>_<seq>.csv in it, each with *)
(* its access mode and with who wrote its content.  The file of a kernel   *)
(* has the kernel's name as base, the transfers file "memory_transfers".   *)
NoFiles == << >>

FileModes == {"readable", "writeonly"}

FileThere(mode) == [mode |-> mode, writer |-> "other"]

(* std::ifstream(logfile_name) converted to bool: the file opens for       *)
(* reading.                                                                *)
OpensForReading(dir, file) == file \in DOMAIN dir /\ dir[file].mode = "readable"

(* lines 1117-1122 and 575-580: logfile_count after the while loop *)
LogfileCount(dir, base) ==
    CHOOSE n \in 0..Cardinality(DOMAIN dir) :
        /\ ~OpensForReading(dir, << base, n >>)
        /\ \A j \in 0..(n - 1) : OpensForReading(dir, << base, j >>)

(* lines 1123-1125, 1161 and 581-583, 592: ofstream::open creates the file *)
(* or truncates the one there, which keeps its mode.                       *)
WriteLogfile(P, base) ==
    LET file == << base, LogfileCount(P.dir, base) >>
        mode == IF file \in DOMAIN P.dir THEN P.dir[file].mode ELSE "readable"
        written == [mode |-> mode, writer |-> "aiwc"]
    IN  [P EXCEPT !.dir = [f \in DOMAIN P.dir \cup {file} |->
                              IF f = file THEN written ELSE P.dir[f]],
                  !.logs = Append(@, file)]

NewPlugin ==
    [ m_hostToDeviceCopy |-> << >>,
      m_deviceToHostCopy |-> << >>,
      m_numberOfHostToDeviceCopiesBeforeKernelNamed |-> 0,
      m_last_kernel_name |-> "",
      agg |-> EmptyAggregate,
      m_state |-> [w \in Workers |-> NullWorkerState],
      report |-> NoReport,      \* the metrics kernelEnd emitted for the latest invocation
      dir |-> NoFiles,          \* the .csv files of the working directory
      logs |-> << >>,           \* the files this process wrote, in order
      transfers |-> << >>,      \* the rows the destructor wrote
      proc |-> "running" ]      \* or how the process ended

HostMemoryLoad(P) ==
    [P EXCEPT !.m_deviceToHostCopy = Append(@, P.m_last_kernel_name)]

(* A store that counts as two pending copies.                              *)
HostMemoryStoreCountedTwice(P) ==
    [P EXCEPT !.m_hostToDeviceCopy = Append(@, P.m_last_kernel_name),
              !.m_numberOfHostToDeviceCopiesBeforeKernelNamed = @ + 2]

HostMemoryStore(P) ==
    [P EXCEPT !.m_hostToDeviceCopy = Append(@, P.m_last_kernel_name),
              !.m_numberOfHostToDeviceCopiesBeforeKernelNamed = @ + 1]

(* A kernelBegin that names the device-to-host entries as well.            *)
KernelBeginNamesLoads(P, name) ==
    [P EXCEPT !.m_last_kernel_name = name,
              !.m_hostToDeviceCopy =
                  RelabelHostToDevice(@, P.m_numberOfHostToDeviceCopiesBeforeKernelNamed, name),
              !.m_deviceToHostCopy = [j \in 1..Len(@) |-> name],
              !.m_numberOfHostToDeviceCopiesBeforeKernelNamed = 0,
              !.agg = KernelBeginClear(@),
              !.report = NoReport]

KernelBegin(P, name) ==
    [P EXCEPT !.m_last_kernel_name = name,
              !.m_hostToDeviceCopy =
                  RelabelHostToDevice(@, P.m_numberOfHostToDeviceCopiesBeforeKernelNamed, name),
              !.m_numberOfHostToDeviceCopiesBeforeKernelNamed = 0,
              !.agg = KernelBeginClear(@),
              !.report = NoReport]

(* A kernelEnd whose reset takes the transfer log with it.                 *)
KernelEndForgetsTransfers(P, name) ==
    IF InvalidRead(P.agg)
    THEN [P EXCEPT !.proc = "invalid access"]
    ELSE [WriteLogfile(P, name) EXCEPT !.report = Report(P.agg),
                                       !.agg = KernelEndClear(@),
                                       !.m_hostToDeviceCopy = << >>,
                                       !.m_deviceToHostCopy = << >>]

(* kernelEnd: the report, then the reset of lines 1168-1177.  Reading an   *)
(* element of an empty container ends the process before anything of the   *)
(* report's parallelism section is written.                                *)
KernelEnd(P, name) ==
    IF InvalidRead(P.agg)
    THEN [P EXCEPT !.proc = "invalid access"]
    ELSE [WriteLogfile(P, name) EXCEPT !.report = Report(P.agg),
                                       !.agg = KernelEndClear(@)]

WorkGroupBegin(P, w) == [P EXCEPT !.m_state[w] = WWorkGroupBegin(@)]

WorkItemBegin(P, w) == [P EXCEPT !.m_state[w] = WWorkItemBegin(@)]

(* An instructionExecuted on a WorkerState that all the threads share.     *)
InstructionExecutedShared(P, w, ins) ==
    IF BranchError(P.m_state[w], ins)
    THEN [P EXCEPT !.m_state[w] = InstructionPrefix(@, ins),
                   !.proc = "SIGINT"]
    ELSE [P EXCEPT !.m_state = [u \in Workers |-> WInstructionExecuted(P.m_state[u], ins)]]

(* std::raise(SIGINT) at line 703 ends the process. *)
InstructionExecuted(P, w, ins) ==
    IF BranchError(P.m_state[w], ins)
    THEN [P EXCEPT !.m_state[w] = InstructionPrefix(@, ins),
                   !.proc = "SIGINT"]
    ELSE [P EXCEPT !.m_state[w] = WInstructionExecuted(@, ins)]

MemoryLoad(P, w, space, address) ==
    [P EXCEPT !.m_state[w] = WMemoryLoad(@, space, address)]

MemoryStore(P, w, space, address) ==
    [P EXCEPT !.m_state[w] = WMemoryStore(@, space, address)]

MemoryAtomicLoad(P, w, space, address) ==
    [P EXCEPT !.m_state[w] = WMemoryAtomicLoad(@, space, address)]

MemoryAtomicStore(P, w, space, address) ==
    [P EXCEPT !.m_state[w] = WMemoryAtomicStore(@, space, address)]

WorkItemBarrier(P, w) == [P EXCEPT !.m_state[w] = WWorkItemBarrier(@)]

WorkItemClearBarrier(P, w) == [P EXCEPT !.m_state[w] = WWorkItemClearBarrier(@)]

WorkItemComplete(P, w) == [P EXCEPT !.m_state[w] = WWorkItemComplete(@)]

WorkGroupComplete(P, w) ==
    [P EXCEPT !.agg = MergeWorker(@, P.m_state[w]),
              !.m_state[w] = WWorkGroupComplete(@)]

(* ~WorkloadCharacterisation *)
Destroy(P) ==
    [WriteLogfile(P, "memory_transfers") EXCEPT
        !.transfers = TransferSummary(P.m_hostToDeviceCopy, P.m_deviceToHostCopy),
        !.proc = "destroyed"]

-----------------------------------------------------------------------------
(* Events: what the host passes to a hook.                                 *)

Event(ev, w, n, name, ins, space, address) ==
    [ ev |-> ev, w |-> w, n |-> n, name |-> name, ins |-> ins,
      space |-> space, address |-> address ]

NoInstr == Br("%entry")

HostEvent(ev) == Event(ev, 1, 0, "", NoInstr, AddrSpacePrivate, 0)
KernelEvent(ev, name) == Event(ev, 1, 0, name, NoInstr, AddrSpacePrivate, 0)
WorkerEvent(ev, w) == Event(ev, w, 0, "", NoInstr, AddrSpacePrivate, 0)
GroupEvent(w, n) == Event("workGroupBegin", w, n, "", NoInstr, AddrSpacePrivate, 0)
InstrEvent(w, ins) == Event("instructionExecuted", w, 0, "", ins, AddrSpacePrivate, 0)
MemEvent(ev, w, space, address) == Event(ev, w, 0, "", NoInstr, space, address)

(* The event as work-item i of the worker's group raises it: the hooks get *)
(* the WorkItem and never look at it.                                      *)
By(i, e) == [e EXCEPT !.n = i]

Item(i, es) == [k \in DOMAIN es |-> By(i, es[k])]

MemoryEvents == {"memoryLoad", "memoryStore", "memoryAtomicLoad", "memoryAtomicStore"}

(* The hook an event runs; a process that has ended runs none. *)
Deliver(P, e) ==
    IF P.proc # "running" THEN P
    ELSE CASE e.ev = "hostMemoryLoad" -> HostMemoryLoad(P)
           [] e.ev = "hostMemoryStore" -> HostMemoryStore(P)
           [] e.ev = "kernelBegin" -> KernelBegin(P, e.name)
           [] e.ev = "kernelEnd" -> KernelEnd(P, e.name)
           [] e.ev = "workGroupBegin" -> WorkGroupBegin(P, e.w)
           [] e.ev = "workItemBegin" -> WorkItemBegin(P, e.w)
           [] e.ev = "instructionExecuted" -> InstructionExecuted(P, e.w, e.ins)
           [] e.ev = "memoryLoad" -> MemoryLoad(P, e.w, e.space, e.address)
           [] e.ev = "memoryStore" -> MemoryStore(P, e.w, e.space, e.address)
           [] e.ev = "memoryAtomicLoad" -> MemoryAtomicLoad(P, e.w, e.space, e.address)
           [] e.ev = "memoryAtomicStore" -> MemoryAtomicStore(P, e.w, e.space, e.address)
           [] e.ev = "workItemBarrier" -> WorkItemBarrier(P, e.w)
           [] e.ev = "workItemClearBarrier" -> WorkItemClearBarrier(P, e.w)
           [] e.ev = "workItemComplete" -> WorkItemComplete(P, e.w)
           [] e.ev = "workGroupComplete" -> WorkGroupComplete(P, e.w)
           [] e.ev = "destroy" -> Destroy(P)

(* The history of the events delivered.                                    *)
NoHistory ==
    [ invocations |-> 0,            \* kernelBegin events
      lastBegun |-> "",             \* the kernel of the last kernelBegin
      nStores |-> 0,                \* hostMemoryStore events
      nLoads |-> 0,                 \* hostMemoryLoad events
      storesSinceBegin |-> 0,       \* hostMemoryStore events since the last kernelBegin
      groups |-> 0,                 \* workGroupBegin events
      planned |-> 0,                \* work-items of the groups begun
      instr |-> 0,                  \* instructionExecuted events
      mem |-> 0,                    \* memory events
      barriers |-> 0,               \* workItemBarrier events
      privateAtomics |-> 0,         \* atomic events on Private regions
      wInstr |-> [w \in Workers |-> 0],     \* instructionExecuted events of w's group
      wOps |-> [w \in Workers |-> << >>],   \* addresses of w's events on non-Private regions
      wBegun |-> [w \in Workers |-> 0],     \* workItemBegin events of w's group
      wDone |-> [w \in Workers |-> 0],      \* workItemComplete events of w's group
      wMerged |-> [w \in Workers |-> << >>], \* the addresses of w's last merged group
      wItemInstr |-> [w \in Workers |-> << >>], \* instructionExecuted events per work-item
      wTrue |-> [w \in Workers |-> << >>],  \* the same at each workItemComplete of w's group
      mTrue |-> << >>,              \*   and over the groups merged in this invocation
      wPending |-> [w \in Workers |-> << >>], \* the targets of the conditional branch
                                    \*   that was w's latest instruction, if it was one
      wResolved |-> [w \in Workers |-> 0], \* instructions of w's group found in a target
      wOutcomes |-> [w \in Workers |-> [l \in Lines |-> << >>]], \* per line of the branch:
                                    \*   was it the first target they were found in
      stray |-> FALSE,              \* an instruction was found in neither target
      wSince |-> [w \in Workers |-> << >>], \* per work-item, the instructions that are not
                                    \*   loads or stores since its latest load or store
      wDist |-> [w \in Workers |-> << >>],  \* the same at each later load or store of w's group
      mDist |-> << >>,              \*   and over the groups merged in this invocation
      wOpcode |-> [w \in Workers |-> EmptyCounts(Opcodes)], \* instructions per opcode
      wSpace |-> [w \in Workers |-> EmptyCounts(AddrSpaces)], \* loads and stores per
                                    \*   address space of the pointer, of w's group
      mInstr |-> 0,                 \* the same, summed over the groups merged
      mOps |-> << >>,               \*   in this invocation
      mBegun |-> 0,
      mDone |-> 0 ]

(* A conditional branch is a br of three operands, two of them labels; the *)
(* instruction event that follows one on the same worker, in the same      *)
(* group, shows where the branch went.                                     *)
IsConditionalBranch(ins) ==
    ins.opcode = "br" /\ ins.numOperands = 3 /\ ins.labelOperands

(* A memory operation is a load or a store instruction; NoneYet marks a    *)
(* work-item that has executed none.                                       *)
IsLoadOrStore(ins) == ins.opcode \in {"load", "store"}

NoneYet == 0 - 1

FollowsBranch(h, e) == h.wPending[e.w] # << >>

Strays(h, e) ==
    /\ FollowsBranch(h, e)
    /\ e.ins.parent # h.wPending[e.w][1]
    /\ e.ins.parent # h.wPending[e.w][2]

Observe(h, e) ==
    CASE e.ev = "hostMemoryLoad" -> [h EXCEPT !.nLoads = @ + 1]
      [] e.ev = "hostMemoryStore" ->
            [h EXCEPT !.nStores = @ + 1, !.storesSinceBegin = @ + 1]
      [] e.ev = "kernelBegin" ->
            [h EXCEPT !.invocations = @ + 1, !.lastBegun = e.name,
                      !.storesSinceBegin = 0, !.mInstr = 0, !.mOps = << >>,
                      !.mTrue = << >>, !.mDist = << >>,
                      !.mBegun = 0, !.mDone = 0]
      [] e.ev = "workGroupBegin" ->
            [h EXCEPT !.groups = @ + 1, !.planned = @ + e.n, !.wInstr[e.w] = 0,
                      !.wItemInstr[e.w] = [i \in 1..e.n |-> 0], !.wTrue[e.w] = << >>,
                      !.wPending[e.w] = << >>, !.wResolved[e.w] = 0,
                      !.wOutcomes[e.w] = [l \in Lines |-> << >>],
                      !.wSince[e.w] = [i \in 1..e.n |-> NoneYet], !.wDist[e.w] = << >>,
                      !.wOpcode[e.w] = EmptyCounts(Opcodes),
                      !.wSpace[e.w] = EmptyCounts(AddrSpaces),
                      !.wOps[e.w] = << >>, !.wBegun[e.w] = 0, !.wDone[e.w] = 0]
      [] e.ev = "workItemBegin" -> [h EXCEPT !.wBegun[e.w] = @ + 1]
      [] e.ev = "instructionExecuted" ->
            [h EXCEPT !.instr = @ + 1, !.wInstr[e.w] = @ + 1,
                      !.wItemInstr[e.w][e.n] = @ + 1,
                      !.wPending[e.w] =
                          IF IsConditionalBranch(e.ins)
                          THEN << e.ins.target1, e.ins.target2, e.ins.line >> ELSE << >>,
                      !.wOutcomes[e.w] =
                          IF FollowsBranch(h, e) /\ ~Strays(h, e)
                          THEN [@ EXCEPT ![h.wPending[e.w][3]] =
                                    Append(@, e.ins.parent = h.wPending[e.w][1])]
                          ELSE @,
                      !.wResolved[e.w] =
                          IF FollowsBranch(h, e) /\ ~Strays(h, e) THEN @ + 1 ELSE @,
                      !.stray = @ \/ Strays(h, e),
                      !.wSince[e.w][e.n] =
                          IF IsLoadOrStore(e.ins) THEN 0
                          ELSE IF @ = NoneYet THEN @ ELSE @ + 1,
                      !.wDist[e.w] =
                          IF IsLoadOrStore(e.ins) /\ h.wSince[e.w][e.n] # NoneYet
                          THEN Append(@, h.wSince[e.w][e.n]) ELSE @,
                      !.wOpcode[e.w][e.ins.opcode] = @ + 1,
                      !.wSpace[e.w][e.ins.addressSpace] =
                          IF IsLoadOrStore(e.ins) THEN @ + 1 ELSE @]
      [] e.ev \in MemoryEvents ->
            [h EXCEPT !.mem = @ + 1,
                      !.privateAtomics =
                          IF /\ e.ev \in {"memoryAtomicLoad", "memoryAtomicStore"}
                             /\ e.space = AddrSpacePrivate
                          THEN @ + 1 ELSE @,
                      !.wOps[e.w] = IF e.space # AddrSpacePrivate
                                    THEN Append(@, e.address) ELSE @]
      [] e.ev = "workItemBarrier" -> [h EXCEPT !.barriers = @ + 1]
      [] e.ev = "workItemComplete" ->
            [h EXCEPT !.wDone[e.w] = @ + 1,
                      !.wTrue[e.w] = Append(@, h.wItemInstr[e.w][e.n])]
      [] e.ev = "workGroupComplete" ->
            [h EXCEPT !.mInstr = @ + h.wInstr[e.w],
                      !.mOps = @ \o h.wOps[e.w], !.wOps[e.w] = << >>,
                      !.wMerged[e.w] = h.wOps[e.w],
                      !.mTrue = @ \o h.wTrue[e.w],
                      !.mDist = @ \o h.wDist[e.w],
                      !.mBegun = @ + h.wBegun[e.w],
                      !.mDone = @ + h.wDone[e.w]]
      [] OTHER -> h

-----------------------------------------------------------------------------
(* The host.  It delivers hostMemoryLoad / hostMemoryStore outside kernel  *)
(* invocations, brackets the work-groups of an invocation by kernelBegin   *)
(* and kernelEnd, runs each work-group on one worker and, inside a group,  *)
(* one work-item at a time until it reaches a barrier or completes.        *)

(* No stream to replay: the host makes its events up as it goes. stream is *)
(* the events to deliver, pos how many of them were, left how many runs of *)
(* the stream remain, round how many are over and first the report the     *)
(* first of them ended with.                                               *)
NoReplay ==
    [ stream |-> << >>, pick |-> << >>, pos |-> 0, left |-> 0, round |-> 0,
      first |-> NoReport ]

(* The host thread and the worker threads. *)
HostThread == 0
Threads == {HostThread} \cup Workers

(* No thread is inside a callback and nobody holds m_mtx.  pc is "idle",   *)
(* "lock" (waiting at lock_guard), "read" (about to read the members the   *)
(* callback updates) or "write" (about to store them and return); call is  *)
(* the event of the callback and seen the aggregate as the thread read it. *)
NoThreads ==
    [ m_mtx |-> {},
      pc |-> [t \in Threads |-> "idle"],
      call |-> [t \in Threads |-> HostEvent("none")],
      seen |-> [t \in Threads |-> EmptyAggregate],
      contended |-> FALSE ]     \* a thread found m_mtx held by another one

Init ==
    /\ plugin = NewPlugin
    /\ kernel = "none"
    /\ items = [w \in Workers |-> << >>]
    /\ hist = NoHistory
    /\ replay = NoReplay
    /\ threads = NoThreads

Idle(w) == items[w] = << >>
Running(w, i) == i \in DOMAIN items[w] /\ items[w][i] = "run"
NoneRunning(w) == \A j \in DOMAIN items[w] : items[w][j] # "run"

(* Work-item i of w's group is the one the worker executes: it runs, or it *)
(* was released from the barrier and the worker picks it up.               *)
Executes(w, i) ==
    IF Running(w, i) THEN TRUE
    ELSE /\ i \in DOMAIN items[w]
         /\ items[w][i] = "ready"
         /\ \A j \in DOMAIN items[w] : items[w][j] \notin {"run", "barrier"}

(* The host delivers e. *)
Host(e) ==
    /\ plugin.proc = "running"
    /\ replay.left = 0
    /\ plugin' = Deliver(plugin, e)
    /\ hist' = Observe(hist, e)
    /\ UNCHANGED << replay, threads >>

hostMemoryLoad(maxTransfers) ==
    /\ kernel = "none"
    /\ hist.nStores + hist.nLoads < maxTransfers
    /\ Host(HostEvent("hostMemoryLoad"))
    /\ UNCHANGED << kernel, items >>

hostMemoryStore(maxTransfers) ==
    /\ kernel = "none"
    /\ hist.nStores + hist.nLoads < maxTransfers
    /\ Host(HostEvent("hostMemoryStore"))
    /\ UNCHANGED << kernel, items >>

kernelBegin(names, maxInvocations) ==
    /\ kernel = "none"
    /\ hist.invocations < maxInvocations
    /\ \E name \in names :
          /\ Host(KernelEvent("kernelBegin", name))
          /\ kernel' = name
    /\ UNCHANGED items

kernelEnd ==
    /\ kernel # "none"
    /\ \A w \in Workers : Idle(w)
    /\ Host(KernelEvent("kernelEnd", kernel))
    /\ kernel' = "none"
    /\ UNCHANGED items

workGroupBegin(workers, maxGroups, maxItems, groupSize) ==
    /\ kernel # "none"
    /\ hist.groups < maxGroups
    /\ \E w \in workers, n \in 1..groupSize :
          /\ Idle(w)
          /\ hist.planned + n <= maxItems
          /\ Host(GroupEvent(w, n))
          /\ items' = [items EXCEPT ![w] = [i \in 1..n |-> "new"]]
    /\ UNCHANGED kernel

workItemBegin ==
    /\ \E w \in Workers :
          /\ NoneRunning(w)
          /\ \E i \in DOMAIN items[w] :
                /\ items[w][i] = "new"
                /\ \A j \in 1..(i - 1) : items[w][j] # "new"
                /\ items' = [items EXCEPT ![w][i] = "run"]
                /\ Host(By(i, WorkerEvent("workItemBegin", w)))
    /\ UNCHANGED kernel

(* The instructions offered to a worker: the parent block is read only     *)
(* when the previous instruction was a conditional branch.                 *)
Parents(ws) == IF ws.previous_instruction_is_branch THEN Blocks ELSE {"%entry"}

Menu(ws) ==
    UNION { { AddInstr(p, 4), LoadInstr(p, AddrSpaceGlobal, "a"),
              StoreInstr(p, AddrSpacePrivate, "b"), CondBr(p, 17), Br(p) } :
            p \in Parents(ws) }

instructionExecuted(opcodes, maxInstr) ==
    /\ hist.instr < maxInstr
    /\ \E w \in Workers, i \in 1..MaxItems :
          /\ Executes(w, i)
          /\ \E ins \in {x \in Menu(plugin.m_state[w]) : x.opcode \in opcodes} :
                Host(By(i, InstrEvent(w, ins)))
          /\ items' = [items EXCEPT ![w][i] = "run"]
    /\ UNCHANGED kernel

MemoryEvent(ev) ==
    /\ hist.mem < MaxMemOps
    /\ \E w \in Workers, i \in 1..MaxItems, space \in AddrSpaces, address \in Addrs :
          /\ Executes(w, i)
          /\ Host(By(i, MemEvent(ev, w, space, address)))
          /\ items' = [items EXCEPT ![w][i] = "run"]
    /\ UNCHANGED kernel

memoryLoad == MemoryEvent("memoryLoad")

memoryStore == MemoryEvent("memoryStore")

memoryAtomicLoad == MemoryEvent("memoryAtomicLoad")

memoryAtomicStore == MemoryEvent("memoryAtomicStore")

workItemBarrier ==
    /\ hist.barriers < MaxBarriers
    /\ \E w \in Workers, i \in 1..MaxItems :
          /\ Executes(w, i)
          /\ Host(By(i, WorkerEvent("workItemBarrier", w)))
          /\ items' = [items EXCEPT ![w][i] = "barrier"]
    /\ UNCHANGED kernel

(* Once every work-item of the group waits at the barrier the work-group   *)
(* releases them, one workItemClearBarrier each, in order.                 *)
workItemClearBarrier ==
    /\ \E w \in Workers, i \in 1..MaxItems :
          /\ i \in DOMAIN items[w]
          /\ items[w][i] = "barrier"
          /\ \A j \in DOMAIN items[w] : items[w][j] \in {"barrier", "ready"}
          /\ \A j \in 1..(i - 1) : items[w][j] = "ready"
          /\ Host(By(i, WorkerEvent("workItemClearBarrier", w)))
          /\ items' = [items EXCEPT ![w][i] = "ready"]
    /\ UNCHANGED kernel

workItemComplete ==
    /\ \E w \in Workers, i \in 1..MaxItems :
          /\ Executes(w, i)
          /\ Host(By(i, WorkerEvent("workItemComplete", w)))
          /\ items' = [items EXCEPT ![w][i] = "done"]
    /\ UNCHANGED kernel

workGroupComplete ==
    /\ \E w \in Workers :
          /\ ~Idle(w)
          /\ \A j \in DOMAIN items[w] : items[w][j] = "done"
          /\ Host(WorkerEvent("workGroupComplete", w))
          /\ items' = [items EXCEPT ![w] = << >>]
    /\ UNCHANGED kernel

destroy ==
    /\ kernel = "none"
    /\ Host(HostEvent("destroy"))
    /\ UNCHANGED << kernel, items >>

(* The measurement pipeline: the invocations of one kernel, their          *)
(* work-groups spread over the workers.                                    *)
Next ==
    \/ kernelBegin({"K1"}, MaxInvocations)
    \/ kernelEnd
    \/ workGroupBegin(Workers, MaxGroups, MaxItems, MaxItems)
    \/ workItemBegin
    \/ instructionExecuted(Opcodes, MaxInstr)
    \/ memoryLoad
    \/ memoryStore
    \/ memoryAtomicLoad
    \/ memoryAtomicStore
    \/ workItemBarrier
    \/ workItemClearBarrier
    \/ workItemComplete
    \/ workGroupComplete
    \/ destroy

Spec == Init /\ [][Next]_vars

(* The host-transfer tracker: transfers between the invocations of two     *)
(* kernels, each invocation one work-group of one work-item on worker 1.   *)
NextHost ==
    \/ hostMemoryLoad(HostTransfers)
    \/ hostMemoryStore(HostTransfers)
    \/ kernelBegin(Kernels, HostInvocations)
    \/ kernelEnd
    \/ workGroupBegin({1}, HostInvocations, HostInvocations, 1)
    \/ workItemBegin
    \/ instructionExecuted({"add"}, HostInvocations)
    \/ workItemComplete
    \/ workGroupComplete
    \/ destroy

SpecHost == Init /\ [][NextHost]_vars

(* The report files: the invocations of one kernel in a working directory  *)
(* that may hold files of earlier runs.                                    *)
FilesBefore ==
    { << "K1", 0 >>, << "K1", 1 >>, << "memory_transfers", 0 >> }

InitFiles ==
    /\ \E there \in SUBSET FilesBefore, mode \in [FilesBefore -> FileModes] :
          plugin = [NewPlugin EXCEPT !.dir = [f \in there |-> FileThere(mode[f])]]
    /\ kernel = "none"
    /\ items = [w \in Workers |-> << >>]
    /\ hist = NoHistory
    /\ replay = NoReplay
    /\ threads = NoThreads

NextFiles ==
    \/ kernelBegin({"K1"}, HostInvocations)
    \/ kernelEnd
    \/ workGroupBegin({1}, HostInvocations, HostInvocations, 1)
    \/ workItemBegin
    \/ instructionExecuted({"add"}, HostInvocations)
    \/ workItemComplete
    \/ workGroupComplete
    \/ destroy

SpecFiles == InitFiles /\ [][NextFiles]_vars

-----------------------------------------------------------------------------
(* Work-groups the host runs to completion: the events of one work-group   *)
(* on worker w, from workGroupBegin to the last workItemComplete.          *)

Block(taken) == IF taken THEN "%then" ELSE "%else"

(* A loop whose conditional branch at line 17 has the given outcomes: the  *)
(* branch in the entry block, the branch again in the block each outcome   *)
(* leads to, and an add after the last one.                                *)
BranchRun(w, outcomes) ==
    IF outcomes = << >> THEN << InstrEvent(w, AddInstr("%entry", 1)) >>
    ELSE << InstrEvent(w, CondBr("%entry", 17)) >>
         \o [k \in 1..(Len(outcomes) - 1) |-> InstrEvent(w, CondBr(Block(outcomes[k]), 17))]
         \o << InstrEvent(w, AddInstr(Block(outcomes[Len(outcomes)]), 1)) >>

(* The same loop with its branch at the given line.                        *)
BranchRunAt(w, line, outcomes) ==
    IF outcomes = << >> THEN << InstrEvent(w, AddInstr("%entry", 1)) >>
    ELSE << InstrEvent(w, CondBr("%entry", line)) >>
         \o [k \in 1..(Len(outcomes) - 1) |-> InstrEvent(w, CondBr(Block(outcomes[k]), line))]
         \o << InstrEvent(w, AddInstr(Block(outcomes[Len(outcomes)]), 1)) >>

(* Outcomes that alternate strictly, four history windows long.            *)
AlternatingLength == 4 * m

AlternatingOutcomes == [k \in 1..AlternatingLength |-> k % 2 = 1]

RECURSIVE Concat(_)
Concat(ss) == IF ss = << >> THEN << >> ELSE Head(ss) \o Concat(Tail(ss))

Repeat(x, n) == [k \in 1..n |-> x]

OneItem(w, body) ==
    << GroupEvent(w, 1) >>
        \o Item(1, << WorkerEvent("workItemBegin", w) >> \o body
                      \o << WorkerEvent("workItemComplete", w) >>)

(* A work-item whose branch at line 42 alternates.                         *)
Alternating(w) == OneItem(w, BranchRunAt(w, 42, AlternatingOutcomes))

Adds(w, n) == Repeat(InstrEvent(w, AddInstr("%entry", 1)), n)

(* Two work-items of one group: each executes 4 instructions, waits at the *)
(* barrier, and executes 2 more once the group has released both.          *)
TwoAtBarrier(w) ==
    << GroupEvent(w, 2) >>
        \o Item(1, << WorkerEvent("workItemBegin", w) >> \o Adds(w, 4)
                      \o << WorkerEvent("workItemBarrier", w) >>)
        \o Item(2, << WorkerEvent("workItemBegin", w) >> \o Adds(w, 4)
                      \o << WorkerEvent("workItemBarrier", w) >>)
        \o Item(1, << WorkerEvent("workItemClearBarrier", w) >>)
        \o Item(2, << WorkerEvent("workItemClearBarrier", w) >>)
        \o Item(1, Adds(w, 2) \o << WorkerEvent("workItemComplete", w) >>)
        \o Item(2, Adds(w, 2) \o << WorkerEvent("workItemComplete", w) >>)

(* A work-item that loads global address 0x1000 four times and stores to   *)
(* global address 0x2000 once.                                             *)
Footprint(w) ==
    OneItem(w, Concat(Repeat(<< InstrEvent(w, LoadInstr("%entry", AddrSpaceGlobal, "a")),
                                MemEvent("memoryLoad", w, AddrSpaceGlobal, 4096) >>, 4))
                   \o << InstrEvent(w, StoreInstr("%entry", AddrSpaceGlobal, "b")),
                         MemEvent("memoryStore", w, AddrSpaceGlobal, 8192) >>)

(* A work-item that loads from and stores to each of the address spaces,   *)
(* between an add and an unconditional branch.                             *)
EverySpace(w) ==
    OneItem(w, << InstrEvent(w, AddInstr("%entry", 1)),
                  InstrEvent(w, LoadInstr("%entry", AddrSpaceLocal, "a")),
                  InstrEvent(w, LoadInstr("%entry", AddrSpaceConstant, "a")),
                  InstrEvent(w, LoadInstr("%entry", AddrSpaceConstant, "b")),
                  InstrEvent(w, LoadInstr("%entry", AddrSpaceGlobal, "a")),
                  InstrEvent(w, LoadInstr("%entry", AddrSpacePrivate, "b")),
                  InstrEvent(w, StoreInstr("%entry", AddrSpaceLocal, "b")),
                  InstrEvent(w, StoreInstr("%entry", AddrSpaceGlobal, "b")),
                  InstrEvent(w, StoreInstr("%entry", AddrSpaceGlobal, "a")),
                  InstrEvent(w, StoreInstr("%entry", AddrSpaceGlobal, "a")),
                  InstrEvent(w, StoreInstr("%entry", AddrSpaceConstant, "a")),
                  InstrEvent(w, StoreInstr("%entry", AddrSpacePrivate, "a")),
                  InstrEvent(w, Br("%entry")) >>)

(* The same work-item alone in its group. *)
OneAtBarrier(w) ==
    OneItem(w, Adds(w, 4) \o << WorkerEvent("workItemBarrier", w),
                                WorkerEvent("workItemClearBarrier", w) >>
                   \o Adds(w, 2))

WorkGroups(w) ==
    << \* 1: a work-item that executes nothing
       OneItem(w, << >>),
       \* 2: two vector adds
       OneItem(w, << InstrEvent(w, AddInstr("%entry", 4)),
                     InstrEvent(w, AddInstr("%entry", 4)) >>),
       \* 3: a branch taken, then not taken, and a load
       OneItem(w, BranchRun(w, << TRUE, FALSE >>)
                    \o << InstrEvent(w, LoadInstr("%else", AddrSpaceGlobal, "a")),
                          MemEvent("memoryLoad", w, AddrSpaceGlobal, 4096) >>),
       \* 4: a branch not taken m - 1 times, stores and an atomic on private memory
       OneItem(w, BranchRun(w, Repeat(FALSE, m - 1))
                    \o << InstrEvent(w, StoreInstr("%else", AddrSpaceLocal, "b")),
                          MemEvent("memoryStore", w, AddrSpaceLocal, 4096),
                          InstrEvent(w, StoreInstr("%else", AddrSpaceConstant, "b")),
                          MemEvent("memoryStore", w, AddrSpaceConstant, 4097),
                          MemEvent("memoryAtomicStore", w, AddrSpaceGlobal, 8192),
                          MemEvent("memoryAtomicLoad", w, AddrSpacePrivate, 16) >>),
       \* 5: two work-items meeting at a barrier, the second ends on a branch
       << GroupEvent(w, 2) >>
          \o Item(1, << WorkerEvent("workItemBegin", w),
                        InstrEvent(w, AddInstr("%entry", 1)),
                        InstrEvent(w, LoadInstr("%entry", AddrSpacePrivate, "a")),
                        MemEvent("memoryLoad", w, AddrSpacePrivate, 32),
                        WorkerEvent("workItemBarrier", w) >>)
          \o Item(2, << WorkerEvent("workItemBegin", w),
                        InstrEvent(w, LoadInstr("%entry", AddrSpaceGlobal, "b")),
                        MemEvent("memoryLoad", w, AddrSpaceGlobal, 4096),
                        WorkerEvent("workItemBarrier", w) >>)
          \o Item(1, << WorkerEvent("workItemClearBarrier", w) >>)
          \o Item(2, << WorkerEvent("workItemClearBarrier", w) >>)
          \o Item(1, << InstrEvent(w, AddInstr("%entry", 4)),
                        WorkerEvent("workItemComplete", w) >>)
          \o Item(2, << InstrEvent(w, CondBr("%entry", 17)),
                        WorkerEvent("workItemComplete", w) >>),
       \* 6: the worker runs no work-group
       << >>,
       \* 7, 8: work-items that meet a barrier after 4 of their 6 instructions
       TwoAtBarrier(w),
       OneAtBarrier(w),
       \* 9: four accesses to 0x1000 and one to 0x2000
       Footprint(w),
       \* 10: a branch that alternates
       Alternating(w),
       \* 11: loads and stores in every address space
       EverySpace(w) >>

NWorkGroups == Len(WorkGroups(1))

(* The work-groups picked for the workers, run one after the other. *)
GroupsRun(pick) == Concat([w \in Workers |-> WorkGroups(w)[pick[w]]])

(* The host replays the next event of its stream. *)
replayEvent ==
    /\ plugin.proc = "running"
    /\ replay.left > 0
    /\ LET e == replay.stream[replay.pos + 1]
           last == replay.pos + 1 = Len(replay.stream)
       IN  /\ plugin' = Deliver(plugin, e)
           /\ hist' = Observe(hist, e)
           /\ replay' = [replay EXCEPT
                            !.pos = IF last THEN 0 ELSE @ + 1,
                            !.left = IF last THEN @ - 1 ELSE @,
                            !.round = IF last THEN @ + 1 ELSE @,
                            !.first = IF last /\ replay.round = 0
                                      THEN Deliver(plugin, e).report ELSE @]
    /\ UNCHANGED << kernel, items, threads >>

ItemsOf(g) == Count([k \in 1..Len(g) |-> g[k].ev], "workItemBegin")

InitMerge ==
    /\ plugin = NewPlugin
    /\ hist = NoHistory
    /\ threads = NoThreads
    /\ kernel = "K1"
    /\ \E pick \in [Workers -> 1..NWorkGroups] :
          /\ items = [w \in Workers |->
                         [i \in 1..ItemsOf(WorkGroups(w)[pick[w]]) |-> "done"]]
          /\ replay = [NoReplay EXCEPT
                          !.stream = << KernelEvent("kernelBegin", "K1") >>
                                         \o GroupsRun(pick),
                          !.pick = pick,
                          !.left = 1]

(* The work-groups run, then their merges in any order, then kernelEnd.    *)
NextMerge ==
    \/ replayEvent
    \/ workGroupComplete
    \/ kernelEnd

SpecMerge == InitMerge /\ [][NextMerge]_vars

(* The host replays the event stream of one invocation on the same plugin. *)
Invocation(pick) ==
    << KernelEvent("kernelBegin", "K1") >>
        \o Concat([w \in Workers |->
                      IF WorkGroups(w)[pick[w]] = << >> THEN << >>
                      ELSE WorkGroups(w)[pick[w]]
                               \o << WorkerEvent("workGroupComplete", w) >>])
        \o << KernelEvent("kernelEnd", "K1") >>

InitReplay ==
    /\ plugin = NewPlugin
    /\ kernel = "none"
    /\ items = [w \in Workers |-> << >>]
    /\ hist = NoHistory
    /\ threads = NoThreads
    /\ \E pick \in [Workers -> 1..NWorkGroups] :
          replay = [NoReplay EXCEPT !.stream = Invocation(pick), !.pick = pick,
                                    !.left = 2]

SpecReplay == InitReplay /\ [][replayEvent]_vars

-----------------------------------------------------------------------------
(* The report of one invocation whose only work-group, on worker 1, is one *)
(* of a family: a mix of opcodes, a mix of addresses, work-items of        *)
(* different lengths, or branches of different lengths at two lines.       *)

MaxCount == 4
MaxMixItems == 4
MaxItemInstr == 3

(* One work-item that executes c[op] instructions of every opcode op.      *)
OpcodeMix(w, c) ==
    OneItem(w, Adds(w, c["add"])
                   \o Repeat(InstrEvent(w, LoadInstr("%entry", AddrSpaceGlobal, "a")), c["load"])
                   \o Repeat(InstrEvent(w, StoreInstr("%entry", AddrSpaceLocal, "b")), c["store"])
                   \o Repeat(InstrEvent(w, Br("%entry")), c["br"]))

MixAddrs == << 4096, 4097, 4098, 8192 >>

(* One work-item that executes an add and reads the k-th address c[k]      *)
(* times.                                                                  *)
AddressMix(w, c) ==
    OneItem(w, Adds(w, 1)
                   \o Concat([k \in DOMAIN MixAddrs |->
                                 Repeat(MemEvent("memoryLoad", w, AddrSpaceGlobal, MixAddrs[k]),
                                        c[k])]))

(* Work-items that execute k[i] instructions each, one after the other.    *)
ItemsMix(w, k) ==
    << GroupEvent(w, Len(k)) >>
        \o Concat([i \in DOMAIN k |->
                      Item(i, << WorkerEvent("workItemBegin", w) >> \o Adds(w, k[i])
                                  \o << WorkerEvent("workItemComplete", w) >>)])

(* The same work-items meeting at a barrier after their first instruction. *)
ItemsMixAtBarrier(w, k) ==
    << GroupEvent(w, Len(k)) >>
        \o Concat([i \in DOMAIN k |->
                      Item(i, << WorkerEvent("workItemBegin", w) >> \o Adds(w, 1)
                                  \o << WorkerEvent("workItemBarrier", w) >>)])
        \o Concat([i \in DOMAIN k |->
                      Item(i, << WorkerEvent("workItemClearBarrier", w) >>)])
        \o Concat([i \in DOMAIN k |->
                      Item(i, Adds(w, k[i] - 1)
                                  \o << WorkerEvent("workItemComplete", w) >>)])

ItemLengths == UNION { [1..n -> 0..MaxItemInstr] : n \in 1..MaxMixItems }

(* Branch outcomes of a given length: all taken, alternating, or taken     *)
(* every third time.                                                       *)
OutcomeKinds == {"taken", "alternating", "third"}

Outcomes(kind, n) ==
    [k \in 1..n |-> CASE kind = "taken" -> TRUE
                      [] kind = "alternating" -> k % 2 = 1
                      [] OTHER -> k % 3 = 0]

BranchLengthsMix == {0, 1, m - 1, m, m + 1, m + 4}

(* One work-item with a loop at line 17 and a loop at line 42.             *)
BranchMix(w, kind, len) ==
    OneItem(w, BranchRunAt(w, 17, Outcomes(kind[17], len[17]))
                   \o BranchRunAt(w, 42, Outcomes(kind[42], len[42])))

Profiles ==
    { OpcodeMix(1, c) : c \in [Opcodes -> 0..MaxCount] }
        \cup { AddressMix(1, c) : c \in [DOMAIN MixAddrs -> 0..MaxCount] }
        \cup { ItemsMix(1, k) : k \in ItemLengths }
        \cup { ItemsMixAtBarrier(1, k) : k \in {x \in ItemLengths : \A i \in DOMAIN x : x[i] >= 1} }
        \cup { BranchMix(1, kind, len) :
                   kind \in [{17, 42} -> OutcomeKinds], len \in [{17, 42} -> BranchLengthsMix] }

(* The run of the host around the work-group g: transfers, the invocation *)
(* of K1 with g, transfers, and an invocation of K2 with one add.          *)
RunAround(g) ==
    << HostEvent("hostMemoryStore"), HostEvent("hostMemoryStore"),
       HostEvent("hostMemoryLoad"), KernelEvent("kernelBegin", "K1") >>
        \o g
        \o << WorkerEvent("workGroupComplete", 1), KernelEvent("kernelEnd", "K1"),
              HostEvent("hostMemoryLoad"), HostEvent("hostMemoryStore"),
              KernelEvent("kernelBegin", "K2") >>
        \o OneItem(1, Adds(1, 1))
        \o << WorkerEvent("workGroupComplete", 1), KernelEvent("kernelEnd", "K2") >>

InitReport ==
    /\ plugin = NewPlugin
    /\ kernel = "none"
    /\ items = [w \in Workers |-> << >>]
    /\ hist = NoHistory
    /\ threads = NoThreads
    /\ \E g \in Profiles :
          replay = [NoReplay EXCEPT !.stream = RunAround(g), !.left = 1]

SpecReport == InitReport /\ [][replayEvent]_vars

-----------------------------------------------------------------------------
(* The callbacks as the threads run them: a thread enters a callback,      *)
(* takes m_mtx where the callback has a lock_guard, reads the members the  *)
(* callback updates, stores them and returns.                              *)

(* A plugin without any lock_guard.                                        *)
LocksNowhere(ev) == FALSE

(* line 1222: the one lock_guard<mutex> lock(m_mtx) of the plugin.         *)
Locks(ev) == ev = "workGroupComplete"

Enter(t, e) ==
    /\ plugin.proc = "running"
    /\ replay.left = 0
    /\ threads.pc[t] = "idle"
    /\ threads' = [threads EXCEPT !.pc[t] = IF Locks(e.ev) THEN "lock" ELSE "read",
                                  !.call[t] = e,
                                  !.contended = @ \/ (Locks(e.ev) /\ threads.m_mtx # {})]
    /\ UNCHANGED << plugin, kernel, items, hist, replay >>

enterHostMemoryLoad ==
    /\ kernel = "none"
    /\ hist.nStores + hist.nLoads < HostTransfers
    /\ Enter(HostThread, HostEvent("hostMemoryLoad"))

enterHostMemoryStore ==
    /\ kernel = "none"
    /\ hist.nStores + hist.nLoads < HostTransfers
    /\ Enter(HostThread, HostEvent("hostMemoryStore"))

enterKernelBegin ==
    /\ kernel = "none"
    /\ hist.invocations < MaxInvocations
    /\ Enter(HostThread, KernelEvent("kernelBegin", "K1"))

enterKernelEnd ==
    /\ kernel # "none"
    /\ \A w \in Workers : Idle(w)
    /\ Enter(HostThread, KernelEvent("kernelEnd", kernel))

enterWorkGroupComplete ==
    \E w \in Workers :
        /\ ~Idle(w)
        /\ \A j \in DOMAIN items[w] : items[w][j] = "done"
        /\ Enter(w, WorkerEvent("workGroupComplete", w))

(* lock_guard's constructor returns once nobody else holds m_mtx. *)
lock ==
    \E t \in Threads :
        /\ threads.pc[t] = "lock"
        /\ threads.m_mtx = {}
        /\ threads' = [threads EXCEPT !.m_mtx = {t}, !.pc[t] = "read"]
        /\ UNCHANGED << plugin, kernel, items, hist, replay >>

read ==
    \E t \in Threads :
        /\ threads.pc[t] = "read"
        /\ threads' = [threads EXCEPT !.seen[t] = plugin.agg, !.pc[t] = "write"]
        /\ UNCHANGED << plugin, kernel, items, hist, replay >>

(* The callback stores what it computed from the values it read and        *)
(* returns; lock_guard's destructor releases m_mtx.                        *)
write ==
    \E t \in Threads :
        /\ threads.pc[t] = "write"
        /\ LET e == threads.call[t]
           IN  /\ plugin' = Deliver([plugin EXCEPT !.agg = threads.seen[t]], e)
               /\ hist' = Observe(hist, e)
               /\ kernel' = CASE e.ev = "kernelBegin" -> e.name
                               [] e.ev = "kernelEnd" -> "none"
                               [] OTHER -> kernel
               /\ items' = IF e.ev = "workGroupComplete"
                           THEN [items EXCEPT ![t] = << >>] ELSE items
        /\ threads' = [threads EXCEPT !.m_mtx = @ \ {t}, !.pc[t] = "idle"]
        /\ UNCHANGED replay

(* The work-groups run, each on its worker; the workers then merge at the  *)
(* same time and the host thread goes on with the callbacks of its own.    *)
NextThreads ==
    \/ replayEvent
    \/ enterWorkGroupComplete
    \/ enterKernelEnd
    \/ enterHostMemoryLoad
    \/ enterHostMemoryStore
    \/ enterKernelBegin
    \/ lock
    \/ read
    \/ write

SpecThreads == InitMerge /\ [][NextThreads]_vars

-----------------------------------------------------------------------------
(* Properties of the host-transfer tracker, under SpecHost.                *)

(* C1: at kernelBegin(K) exactly the host-to-device entries appended by    *)
(* hostMemoryStore since the previous kernelBegin (or since construction)  *)
(* take the name K, every other entry keeps its name, and the pending      *)
(* counter is zero afterwards.                                             *)
C1_RelabelPending ==
    [][hist'.invocations # hist.invocations =>
        LET old == plugin.m_hostToDeviceCopy
            new == plugin'.m_hostToDeviceCopy
            pending == hist.storesSinceBegin
        IN  /\ Len(old) = hist.nStores
            /\ Len(new) = Len(old)
            /\ \A j \in 1..Len(old) :
                  new[j] = IF j > Len(old) - pending THEN hist'.lastBegun ELSE old[j]
            /\ plugin'.m_numberOfHostToDeviceCopiesBeforeKernelNamed = 0]_vars

(* Two stores before the second kernelBegin took its name, and the store   *)
(* before the first kernelBegin kept its own.                              *)
C1_Witness ==
    /\ hist.invocations = 2
    /\ kernel = "K2"
    /\ plugin.m_hostToDeviceCopy = << "K1", "K2", "K2" >>
    /\ plugin.m_numberOfHostToDeviceCopiesBeforeKernelNamed = 0

(* C2: each hostMemoryLoad appends the name of the most recently begun     *)
(* kernel ("" if there is none) to the device-to-host log, and no event    *)
(* changes an entry the log already holds.                                 *)
C2_LoadsKeepTheirName ==
    [][LET old == plugin.m_deviceToHostCopy
           new == plugin'.m_deviceToHostCopy
       IN  IF hist'.nLoads # hist.nLoads
           THEN new = Append(old, hist.lastBegun)
           ELSE new = old]_vars

(* A load made after K1 ran is still named K1 when K2 has begun, next to a *)
(* load made before any kernel.                                            *)
C2_Witness ==
    /\ plugin.m_deviceToHostCopy = << "", "K1" >>
    /\ plugin.m_last_kernel_name = "K2"

RowsOf(metric, name) ==
    { i \in DOMAIN plugin.transfers :
        /\ plugin.transfers[i].metric = metric
        /\ plugin.transfers[i].kernel = name }

OneRowPerKernel(metric, copies) ==
    /\ \A name \in Range(copies) :
          /\ Cardinality(RowsOf(metric, name)) = 1
          /\ \A i \in RowsOf(metric, name) :
                plugin.transfers[i].count = Count(copies, name)
    /\ \A name \in Kernels \cup {""} :
          name \notin Range(copies) => RowsOf(metric, name) = {}

(* C3: at destruction the summary holds, per direction, exactly one row    *)
(* for each distinct kernel name of that direction's log, and its count is *)
(* the number of entries of that name.                                     *)
C3_OneRowPerName ==
    plugin.proc = "destroyed" =>
        /\ OneRowPerKernel("transfer: host to device", plugin.m_hostToDeviceCopy)
        /\ OneRowPerKernel("transfer: device to host", plugin.m_deviceToHostCopy)

-----------------------------------------------------------------------------
(* Properties of the invocation aggregate, under Spec.                     *)

(* kernelEnd is the next event: every work-group begun has been merged.    *)
AtKernelEnd ==
    /\ plugin.proc = "running"
    /\ kernel # "none"
    /\ \A w \in Workers : Idle(w)

(* C4: right after kernelEnd every container and counter of the invocation *)
(* aggregate is empty or zero, as it is right after kernelBegin.           *)
C4_EmptyAfterKernelEnd ==
    plugin.report.emitted => plugin.agg = EmptyAggregate

(* C7: at kernelEnd the computeOps counts and the instructionWidth counts  *)
(* both add up to the number of instructionExecuted events of the          *)
(* invocation.                                                             *)
C7_CountsAddUp ==
    /\ AtKernelEnd =>
          /\ MapTotal(plugin.agg.computeOps) = hist.mInstr
          /\ MapTotal(plugin.agg.instructionWidth) = hist.mInstr
    /\ plugin.report.emitted =>
          plugin.report.total_instruction_count = hist.mInstr

(* The second invocation ends with one instruction of its own after the    *)
(* first one executed an instruction too.                                  *)
C7_Witness ==
    /\ hist.invocations = 2
    /\ hist.instr > hist.mInstr
    /\ plugin.report.emitted
    /\ plugin.report.total_instruction_count = 1

(* C8: at kernelEnd instructionsPerWorkitem has as many elements as        *)
(* threads_invoked counts, when every work-item begun in the invocation    *)
(* has completed.                                                          *)
C8_OneEntryPerWorkItem ==
    AtKernelEnd /\ hist.mBegun = hist.mDone =>
        /\ Len(plugin.agg.instructionsPerWorkitem) = plugin.agg.threads_invoked
        /\ plugin.agg.threads_invoked = hist.mBegun

(* Two work-groups of one completed work-item each have been merged.       *)
C8_Witness ==
    /\ AtKernelEnd
    /\ hist.mBegun = 2
    /\ hist.mDone = 2
    /\ plugin.agg.threads_invoked = 2

(* C9: memoryOps holds exactly the addresses reported by memoryLoad,       *)
(* memoryStore, memoryAtomicLoad and memoryAtomicStore events on regions   *)
(* whose address space is not Private; an event on a Private region        *)
(* appends nothing.                                                        *)
C9_NoPrivateAddress ==
    /\ \A w \in Workers : plugin.m_state[w].memoryOps = hist.wOps[w]
    /\ kernel # "none" => plugin.agg.memoryOps = hist.mOps

(* An atomic event on private memory was delivered and left memoryOps      *)
(* empty.                                                                  *)
C9_Witness ==
    /\ hist.privateAtomics = 1
    /\ \E w \in Workers : ~Idle(w)
    /\ \A w \in Workers : plugin.m_state[w].memoryOps = << >>
    /\ plugin.agg.memoryOps = << >>

-----------------------------------------------------------------------------
(* Properties of the report, under SpecMerge and SpecReplay.               *)

(* C5: the same event stream from kernelBegin to kernelEnd delivered twice *)
(* in a row to one plugin makes the second kernelEnd emit the values the   *)
(* first one emitted.                                                      *)
C5_SameReportTwice ==
    replay.round = 2 => plugin.report = replay.first

(* Both runs of an invocation with a barrier, branches and memory accesses *)
(* ended with a report.                                                    *)
C5_Witness ==
    /\ replay.round = 2
    /\ plugin.report.emitted
    /\ replay.first.emitted
    /\ plugin.report.barriers_hit > 0
    /\ plugin.report.memory_access_count > 1
    /\ plugin.report.unique_branches > 0

(* The aggregate the merges leave when they happen in the order of the     *)
(* workers, from the worker states as they were when their groups ended.   *)
RECURSIVE MergedUpTo(_)
MergedUpTo(n) ==
    IF n = 0 THEN EmptyAggregate
    ELSE MergeWorker(MergedUpTo(n - 1),
                     [plugin.m_state[n] EXCEPT !.memoryOps = hist.wMerged[n]])

(* C6: for given contributions of the work-groups every metric kernelEnd   *)
(* emits is the same whatever the order of the workGroupComplete merges.   *)
C6_MergeOrderFree ==
    plugin.report.emitted => plugin.report = Report(MergedUpTo(NWorkers))

(* C10: at kernelEnd the memory access count, and the total of the         *)
(* address histogram at every shift from 0 to 10, equal the number of      *)
(* elements of memoryOps.                                                  *)
C10_EveryAccessCounted ==
    [][~plugin.report.emitted /\ plugin'.report.emitted =>
        /\ plugin'.report.memory_access_count = Len(plugin.agg.memoryOps)
        /\ \A nskip \in 0..10 :
              plugin'.report.address_count_total[nskip] = Len(plugin.agg.memoryOps)]_vars

(* Four accesses to three addresses were counted.                          *)
C10_Witness ==
    /\ plugin.report.emitted
    /\ plugin.report.memory_access_count = 4
    /\ plugin.report.total_memory_footprint = 3

-----------------------------------------------------------------------------
(* Properties of the callbacks run by several threads, under SpecThreads.  *)

InCallback(t, evs) ==
    /\ threads.pc[t] \in {"read", "write"}
    /\ threads.call[t].ev \in evs

(* C11: a thread that writes the invocation aggregate, be it the clearing  *)
(* of kernelBegin or kernelEnd or the merge of workGroupComplete, holds    *)
(* m_mtx.                                                                  *)
C11_AggregateWritesLocked ==
    \A t \in Threads :
        /\ threads.pc[t] = "write"
        /\ threads.call[t].ev \in {"kernelBegin", "kernelEnd", "workGroupComplete"}
        => threads.m_mtx = {t}

(* C12: hostMemoryLoad, hostMemoryStore, kernelBegin and kernelEnd run     *)
(* with m_mtx held, so no two threads are at the same time inside          *)
(* callbacks that update the transfer log, the pending counter or the      *)
(* aggregate.                                                              *)
C12_HostCallbacksLocked ==
    /\ \A t \in Threads :
          InCallback(t, {"hostMemoryLoad", "hostMemoryStore", "kernelBegin", "kernelEnd"})
              => threads.m_mtx = {t}
    /\ \A t, u \in Threads :
          /\ InCallback(t, {"hostMemoryLoad", "hostMemoryStore", "kernelBegin",
                            "kernelEnd", "workGroupComplete"})
          /\ InCallback(u, {"hostMemoryLoad", "hostMemoryStore", "kernelBegin",
                            "kernelEnd", "workGroupComplete"})
          => t = u

(* Every work-group of the first invocation has been merged and kernelEnd  *)
(* has not reset the aggregate yet.                                        *)
AllMerged ==
    /\ kernel # "none"
    /\ hist.invocations = 1
    /\ \A w \in Workers : Idle(w)

WorkersTotal(f) == MapSum(f, Workers)

(* C13: whatever the interleaving of the workers' workGroupComplete calls, *)
(* after all merges each counter and per-key count of the aggregate is the *)
(* sum of the workers' values and each sequence is as long as the workers' *)
(* sequences together.                                                     *)
C13_NoLostUpdate ==
    AllMerged =>
        LET a == plugin.agg
            ws == plugin.m_state
        IN  /\ \A k \in Opcodes :
                  a.computeOps[k] = WorkersTotal([w \in Workers |-> ws[w].computeOps[k]])
            /\ \A k \in Widths :
                  a.instructionWidth[k] =
                      WorkersTotal([w \in Workers |-> ws[w].instructionWidth[k]])
            /\ \A k \in Labels :
                  /\ a.loadInstructionLabels[k] =
                         WorkersTotal([w \in Workers |-> ws[w].loadInstructionLabels[k]])
                  /\ a.storeInstructionLabels[k] =
                         WorkersTotal([w \in Workers |-> ws[w].storeInstructionLabels[k]])
            /\ a.threads_invoked = WorkersTotal([w \in Workers |-> ws[w].threads_invoked])
            /\ a.barriers_hit = WorkersTotal([w \in Workers |-> ws[w].barriers_hit])
            /\ a.global_memory_access =
                  WorkersTotal([w \in Workers |-> ws[w].global_memory_access_count])
            /\ a.local_memory_access =
                  WorkersTotal([w \in Workers |-> ws[w].local_memory_access_count])
            /\ a.constant_memory_access =
                  WorkersTotal([w \in Workers |-> ws[w].constant_memory_access_count])
            /\ Len(a.memoryOps) = WorkersTotal([w \in Workers |-> Len(hist.wMerged[w])])
            /\ \A l \in Lines :
                  Len(a.branchOps[l]) = WorkersTotal([w \in Workers |-> Len(ws[w].branchOps[l])])
            /\ Len(a.instructionsToBarrier) =
                  WorkersTotal([w \in Workers |-> Len(ws[w].instructionsBetweenBarriers)])
            /\ Len(a.instructionsPerWorkitem) =
                  WorkersTotal([w \in Workers |-> Len(ws[w].instructionsPerWorkitem)])
            /\ Len(a.instructionsBetweenLoadOrStore) =
                  WorkersTotal([w \in Workers |-> Len(ws[w].instructionsBetweenLoadOrStore)])

(* Two workers were in workGroupComplete at the same time, one waiting for *)
(* m_mtx, and both of their groups are in the aggregate.                   *)
C13_Witness ==
    /\ AllMerged
    /\ threads.contended
    /\ plugin.agg.threads_invoked = 3
    /\ plugin.agg.barriers_hit = 2
    /\ Len(plugin.agg.memoryOps) >= 2

-----------------------------------------------------------------------------
(* Properties of the worker hooks, under Spec.                             *)

(* The step is an event of worker w other than its workGroupComplete.      *)
ActsAlone(w) ==
    /\ hist'.invocations = hist.invocations
    /\ kernel' = kernel
    /\ plugin'.proc # "destroyed"
    /\ ~(items[w] # << >> /\ items'[w] = << >>)
    /\ \/ items'[w] # items[w]
       \/ hist'.wInstr[w] # hist.wInstr[w]
       \/ hist'.wOps[w] # hist.wOps[w]

(* C14: the instruction, memory, work-item and workGroupBegin events of a  *)
(* worker change neither the invocation aggregate nor the WorkerState of   *)
(* another worker; the aggregate holds the merged work-groups only, so a   *)
(* group that has not completed adds nothing to it.                        *)
C14_WorkerEventsStayLocal ==
    [][/\ \A w \in Workers :
             ActsAlone(w) =>
                 /\ plugin'.agg = plugin.agg
                 /\ \A u \in Workers \ {w} : plugin'.m_state[u] = plugin.m_state[u]
       /\ kernel' # "none" =>
             /\ MapTotal(plugin'.agg.computeOps) = hist'.mInstr
             /\ plugin'.agg.threads_invoked = hist'.mBegun
             /\ plugin'.agg.memoryOps = hist'.mOps]_vars

(* A worker has executed an instruction of a group it has not completed    *)
(* while the aggregate holds the instruction of a merged group only.       *)
C14_Witness ==
    /\ kernel # "none"
    /\ \E w \in Workers : ~Idle(w) /\ hist.wInstr[w] = 1
    /\ \E w \in Workers : plugin.m_state[w].threads_invoked = 1 /\ Idle(w)
    /\ hist.mInstr = 1
    /\ MapTotal(plugin.agg.computeOps) = 1

-----------------------------------------------------------------------------
(* Properties of the per-work-item counts.                                 *)

(* C15: the entries of instructionsPerWorkitem are, as a multiset, the     *)
(* numbers of instructions the merged work-items executed between their    *)
(* workItemBegin and their workItemComplete, also when work-items of one   *)
(* group interleave at a barrier; so the entries sum to the number of      *)
(* instructions executed.                                                  *)
C15_PerWorkItemCounts ==
    plugin.proc = "running" /\ kernel # "none" =>
        /\ SortAsc(plugin.agg.instructionsPerWorkitem) = SortAsc(hist.mTrue)
        /\ SeqSum(plugin.agg.instructionsPerWorkitem) = hist.mInstr

(* The invocation runs two work-items that execute 4 instructions, meet a  *)
(* barrier and execute 2 more: both in one work-group, or one in each of   *)
(* two work-groups.                                                        *)
Picked(w) == WorkGroups(w)[replay.pick[w]]

BarrierScenario ==
    /\ replay.pick # << >>
    /\ LET both == {w \in Workers : Picked(w) = TwoAtBarrier(w)}
           alone == {w \in Workers : Picked(w) = OneAtBarrier(w)}
           idle == {w \in Workers : Picked(w) = << >>}
       IN  /\ both \cup alone \cup idle = Workers
           /\ \/ Cardinality(both) = 1 /\ alone = {}
              \/ both = {} /\ Cardinality(alone) = 2

(* C16: two work-items that each execute 4 instructions, hit a barrier and *)
(* execute 2 more are reported with threads invoked 2, barriers hit 2,     *)
(* instructions between barriers {4,4,2,2} with median 3, and barriers per *)
(* instruction (2+2)/12, in one work-group as in two.                      *)
C16_TwoAtBarrier ==
    [][BarrierScenario /\ ~plugin.report.emitted /\ plugin'.report.emitted =>
          /\ plugin'.report.threads_invoked = 2
          /\ plugin'.report.barriers_hit = 2
          /\ SortAsc(plugin.agg.instructionsToBarrier) = << 2, 2, 4, 4 >>
          /\ plugin'.report.itb_median = 3
          /\ plugin'.report.barriers_per_instruction = Frac(2 + 2, 12)]_vars

-----------------------------------------------------------------------------
(* Properties of the degenerate invocations.                               *)

(* C17: a kernelEnd that follows its kernelBegin with no work-group merged *)
(* in between reads no element of an empty container, leaves the process  *)
(* running and emits the report.                                           *)
C17_NoWorkGroup ==
    [][kernel # "none" /\ hist.mBegun = 0 /\ kernel' = "none" =>
          /\ plugin'.proc = "running"
          /\ plugin'.report.emitted]_vars

(* C18: when no load or store was executed in the invocation, so that      *)
(* instructionsBetweenLoadOrStore is empty at kernelEnd, the freedom to    *)
(* reorder reported is 0.                                                  *)
C18_NoLoadOrStore ==
    [][/\ ~plugin.report.emitted /\ plugin'.report.emitted
       /\ plugin.agg.instructionsBetweenLoadOrStore = << >>
       => plugin'.report.freedom_to_reorder = Frac(0, 1)]_vars

-----------------------------------------------------------------------------
(* Properties of the branch trace, under Spec.                             *)

BranchTotal(b) == MapTotal(BranchLengths(b))

(* C19: the process is interrupted exactly when an instruction that        *)
(* follows a conditional branch lies in a block that is neither target1    *)
(* nor target2; such an instruction appends no outcome to branchOps, and   *)
(* every instruction found in one of the targets appends one, raising no   *)
(* error.                                                                  *)
C19_BranchError ==
    /\ plugin.proc = "SIGINT" <=> hist.stray
    /\ \A w \in Workers :
          BranchTotal(plugin.m_state[w].branchOps) = hist.wResolved[w]

(* The process was interrupted at the instruction after a branch.          *)
C19_Witness ==
    /\ plugin.proc = "SIGINT"
    /\ hist.stray
    /\ \E w \in Workers : hist.wPending[w] # << >> /\ hist.wResolved[w] = 0

-----------------------------------------------------------------------------
(* Properties of the memory footprint, under SpecMerge.                    *)

(* memoryOps holds 4 accesses to 0x1000, 1 access to 0x2000 and no other.  *)
FootprintScenario(ops) ==
    /\ Len(ops) = 5
    /\ Count(ops, 4096) = 4
    /\ Count(ops, 8192) = 1

(* C20 as stated: for 4 accesses to 0x1000 and 1 access to 0x2000          *)
(* kernelEnd reports a total memory footprint of 2, a memory access count  *)
(* of 5 and a 90% footprint of 1.                                          *)
C20_FootprintAsStated ==
    [][/\ ~plugin.report.emitted /\ plugin'.report.emitted
       /\ FootprintScenario(plugin.agg.memoryOps)
       => /\ plugin'.report.total_memory_footprint = 2
          /\ plugin'.report.memory_access_count = 5
          /\ plugin'.report.unique_memory_addresses = 1]_vars

(* C20: for 4 accesses to 0x1000 and 1 access to 0x2000 kernelEnd reports  *)
(* a total memory footprint of 2, a memory access count of 5 and a 90%     *)
(* footprint of 2: 90% of 5 accesses rounds up to 5, which the 4 accesses  *)
(* to the first address do not cover.                                      *)
C20_Footprint ==
    [][/\ ~plugin.report.emitted /\ plugin'.report.emitted
       /\ FootprintScenario(plugin.agg.memoryOps)
       => /\ plugin'.report.total_memory_footprint = 2
          /\ plugin'.report.memory_access_count = 5
          /\ plugin'.report.unique_memory_addresses = 2]_vars

(* The report of an invocation that made these five accesses.              *)
C20_Witness ==
    /\ plugin.report.emitted
    /\ FootprintScenario(hist.mOps)
    /\ plugin.report.memory_access_count = 5
    /\ plugin.report.unique_memory_addresses = 2

(* memoryOps is not empty and every access is to the same address.         *)
SameAddress(ops) ==
    /\ ops # << >>
    /\ \A i, j \in DOMAIN ops : ops[i] = ops[j]

(* C21: when every access of a non-empty memoryOps is to one address,      *)
(* kernelEnd reports a 90% footprint of 1, a total memory footprint of 1   *)
(* and a global address entropy of 0.                                      *)
C21_OneAddress ==
    [][/\ ~plugin.report.emitted /\ plugin'.report.emitted
       /\ SameAddress(plugin.agg.memoryOps)
       => /\ plugin'.report.unique_memory_addresses = 1
          /\ plugin'.report.total_memory_footprint = 1
          /\ EntropyIsZero(plugin'.report.mem_entropy)]_vars

(* The report of an invocation whose two work-groups accessed one address. *)
C21_Witness ==
    /\ plugin.report.emitted
    /\ SameAddress(hist.mOps)
    /\ Len(hist.mOps) = 2
    /\ plugin.report.total_memory_footprint = 1
    /\ plugin.report.mem_entropy = << Frac(1, 1) >>

-----------------------------------------------------------------------------
(* Properties of the branch entropy, under SpecMerge.                      *)

(* The branch trace without the lines shorter than the history window.     *)
ShortDropped(b) == [l \in DOMAIN b |-> IF Len(b[l]) < m THEN << >> ELSE b[l]]

(* C22: a branch line whose merged outcomes are fewer than m = 16 gives no *)
(* window to the branch entropy, which is what it would be without the     *)
(* line; when no line reaches m outcomes the average linear branch entropy *)
(* reported is 0.                                                          *)
C22_ShortLinesExcluded ==
    [][~plugin.report.emitted /\ plugin'.report.emitted =>
          /\ plugin'.report.average_entropy =
                 AverageEntropy(ShortDropped(plugin.agg.branchOps))
          /\ (\A l \in Lines : Len(plugin.agg.branchOps[l]) < m) =>
                 plugin'.report.average_entropy = Frac(0, 1)]_vars

(* The report of an invocation whose only branch line has two outcomes.    *)
C22_Witness ==
    /\ plugin.report.emitted
    /\ plugin.report.unique_branches = 1
    /\ WorkersTotal(hist.wResolved) = 2
    /\ plugin.report.average_entropy = Frac(0, 1)

IsAlternating(outcomes) ==
    \A i \in 1..(Len(outcomes) - 1) : outcomes[i] # outcomes[i + 1]

(* The only branch line with outcomes has 64 of them, strictly alternating. *)
AlternatingScenario(b, l) ==
    /\ Len(b[l]) = AlternatingLength
    /\ IsAlternating(b[l])
    /\ \A k \in DOMAIN b : k # l => b[k] = << >>

(* C23: for a single branch line with 64 strictly alternating outcomes     *)
(* every window of 16 holds exactly 8 taken outcomes, the windows show     *)
(* exactly two patterns, the linear entropy of each window is 1 and the    *)
(* average linear branch entropy reported is 1.                            *)
C23_Alternating ==
    [][~plugin.report.emitted /\ plugin'.report.emitted =>
          \A l \in Lines :
              AlternatingScenario(plugin.agg.branchOps, l) =>
                  LET w == Windows(plugin.agg.branchOps[l])
                  IN  /\ \A i \in DOMAIN w :
                            /\ Taken(w[i]) * 2 = m
                            /\ LinearEntropyTimesM(w[i]) = m
                      /\ Cardinality(Range(w)) = 2
                      /\ plugin'.report.average_entropy = Frac(1, 1)]_vars

(* The report of an invocation whose one branch alternated 64 times.       *)
C23_Witness ==
    /\ plugin.report.emitted
    /\ plugin.report.unique_branches = 1
    /\ WorkersTotal(hist.wResolved) = AlternatingLength
    /\ \E w \in Workers : Picked(w) = Alternating(w)
    /\ plugin.report.average_entropy = Frac(1, 1)

-----------------------------------------------------------------------------
(* Properties of the report files, under SpecFiles.                        *)

(* C24: the file a kernelEnd or the destructor writes carries the smallest *)
(* sequence number whose file name is not in the directory yet, so that no *)
(* file there is overwritten; from an empty directory the files of one     *)
(* kernel are numbered 0, 1, 2, ... in the order of its kernelEnd calls.   *)
C24_FreshSequenceNumber ==
    [][plugin'.logs # plugin.logs =>
          LET file == plugin'.logs[Len(plugin'.logs)]
          IN  /\ file \notin DOMAIN plugin.dir
              /\ \A j \in 0..(file[2] - 1) : << file[1], j >> \in DOMAIN plugin.dir
              /\ \A f \in DOMAIN plugin.dir : plugin'.dir[f] = plugin.dir[f]]_vars

-----------------------------------------------------------------------------
(* Properties of the instruction trace of a worker.                        *)

(* C25: the freedom to reorder reported is the mean, over the consecutive  *)
(* loads and stores of the merged work-items, of the number of             *)
(* instructions that are neither executed between the two; two loads       *)
(* executed back to back count as a distance of 0.                         *)
C25_FreedomToReorder ==
    [][/\ ~plugin.report.emitted /\ plugin'.report.emitted
       /\ hist.mDist # << >>
       => plugin'.report.freedom_to_reorder =
              Frac(SeqSum(hist.mDist), Len(hist.mDist))]_vars

(* C26: in a worker the booleans of branchOps[line] are the outcomes of    *)
(* the conditional branches recorded at that line, one for each of them    *)
(* that was followed by an instruction, appended by that instruction: true *)
(* when it lies in target1, false when in target2; a branch is pending     *)
(* afterwards only when that instruction is a conditional branch itself.   *)
(* Unconditional branches and the other opcodes add nothing.               *)
C26_OneOutcomePerBranch ==
    \A w \in Workers :
        /\ plugin.m_state[w].branchOps = hist.wOutcomes[w]
        /\ plugin.proc = "running" =>
               plugin.m_state[w].previous_instruction_is_branch
                   = (hist.wPending[w] # << >>)

(* A branch was resolved by an unconditional branch, which left no branch  *)
(* pending and added nothing of its own.                                   *)
C26_Witness ==
    \E w \in Workers :
        /\ plugin.m_state[w].branchOps[17] = << TRUE >>
        /\ plugin.m_state[w].computeOps["br"] = 2
        /\ ~plugin.m_state[w].previous_instruction_is_branch
        /\ hist.wPending[w] = << >>
        /\ plugin.proc = "running"

-----------------------------------------------------------------------------
(* Properties of the WorkerState at the ends of a work-group.              *)

(* Worker w begins a work-group in this step.                              *)
BeginsGroup(w) == Idle(w) /\ items'[w] # << >>

(* C27: after workGroupBegin, whatever the worker did before, every        *)
(* container of its WorkerState is empty, every scalar is 0 (the           *)
(* per-work-item instruction count and the count of instructions since the *)
(* last load or store included) and the branch fields are cleared.         *)
C27_WorkerStateCleared ==
    [][\A w \in Workers :
          BeginsGroup(w) =>
              plugin'.m_state[w] = [NullWorkerState EXCEPT !.allocated = TRUE]]_vars

(* Worker w completes its work-group in this step.                         *)
CompletesGroup(w) == ~Idle(w) /\ Idle(w)'

(* C28: workGroupComplete leaves the worker's state cleared: a second      *)
(* workGroupComplete of the worker right after it, with no workGroupBegin  *)
(* and no other event in between, would add nothing to the aggregate.      *)
C28_SecondMergeAddsNothing ==
    [][\A w \in Workers :
          CompletesGroup(w) =>
              Deliver(plugin', WorkerEvent("workGroupComplete", w)).agg = plugin'.agg]_vars

(* C29: a merge appends the memoryOps the worker recorded to the           *)
(* aggregate as one block in the order recorded, and extends the           *)
(* aggregate's sequence of every branch line by the worker's booleans of   *)
(* the line in the order recorded; with the workers completing at the same *)
(* time the blocks of two workers are not interleaved.                     *)
C29_MergedAsBlocks ==
    [][\A w \in Workers :
          CompletesGroup(w) =>
              /\ plugin'.agg.memoryOps = plugin.agg.memoryOps \o hist.wOps[w]
              /\ \A l \in Lines :
                    plugin'.agg.branchOps[l] =
                        plugin.agg.branchOps[l] \o hist.wOutcomes[w][l]]_vars

(* Two workers completed at the same time, the second one first: its block *)
(* of addresses and its booleans precede those of the first.               *)
C29_Witness ==
    /\ AllMerged
    /\ threads.contended
    /\ hist.wMerged[1] # << >> /\ hist.wMerged[2] # << >>
    /\ hist.wMerged[1] # hist.wMerged[2]
    /\ plugin.agg.memoryOps = hist.wMerged[2] \o hist.wMerged[1]
    /\ hist.wOutcomes[1][17] # << >> /\ hist.wOutcomes[2][17] # << >>
    /\ hist.wOutcomes[1][17] # hist.wOutcomes[2][17]
    /\ plugin.agg.branchOps[17] = hist.wOutcomes[2][17] \o hist.wOutcomes[1][17]

(* C30: at kernelEnd, when every work-item that began has completed in a   *)
(* merged work-group, instructionsBetweenBarriers has as many entries as   *)
(* barriers were hit and work-items invoked together: one for every        *)
(* workItemBarrier and one for every workItemComplete.                     *)
C30_EntryPerBarrierAndItem ==
    AtKernelEnd /\ hist.mBegun = hist.mDone =>
        /\ plugin.agg.threads_invoked = hist.mDone
        /\ Len(plugin.agg.instructionsToBarrier) =
               plugin.agg.barriers_hit + plugin.agg.threads_invoked

(* Two work-items were merged, one of which had hit a barrier.             *)
C30_Witness ==
    /\ AtKernelEnd
    /\ hist.mDone = 2
    /\ plugin.agg.threads_invoked = 2
    /\ plugin.agg.barriers_hit = 1
    /\ Len(plugin.agg.instructionsToBarrier) = 3

-----------------------------------------------------------------------------
(* Properties of the instruction counters of a worker.                     *)

(* C31: an instructionExecuted adds one to computeOps of its opcode,       *)
(* whatever the instruction, and one to the Local, the Global or the       *)
(* Constant access counter exactly when the instruction is a load or a     *)
(* store whose pointer is in that address space; a load or store on        *)
(* Private memory and every other opcode add to none of the three.         *)
C31_ClassifiedBySpace ==
    \A w \in Workers :
        /\ plugin.m_state[w].computeOps = hist.wOpcode[w]
        /\ plugin.m_state[w].local_memory_access_count = hist.wSpace[w][AddrSpaceLocal]
        /\ plugin.m_state[w].global_memory_access_count = hist.wSpace[w][AddrSpaceGlobal]
        /\ plugin.m_state[w].constant_memory_access_count
               = hist.wSpace[w][AddrSpaceConstant]

(* A work-item has executed loads and stores in all four address spaces,   *)
(* an add and a branch.                                                    *)
C31_Witness ==
    \E w \in Workers :
        /\ hist.wOpcode[w] = [add |-> 1, load |-> 5, store |-> 6, br |-> 1]
        /\ hist.wSpace[w][AddrSpacePrivate] = 2
        /\ plugin.m_state[w].local_memory_access_count = 2
        /\ plugin.m_state[w].global_memory_access_count = 4
        /\ plugin.m_state[w].constant_memory_access_count = 3

-----------------------------------------------------------------------------
(* Properties of the report, under SpecReport.                             *)

(* The report is emitted in this step.                                     *)
Emits == ~plugin.report.emitted /\ plugin'.report.emitted

(* The least whole number that is at least nine tenths of n.               *)
NineTenths(n) ==
    CHOOSE c \in 0..n : 10 * c >= 9 * n /\ \A d \in 0..(c - 1) : 10 * d < 9 * n

(* Some k entries of f have counts that add up to need; the k largest do   *)
(* when any k do.                                                          *)
Covers(f, k, need) ==
    \E T \in SUBSET DOMAIN f : Cardinality(T) = k /\ MapSum(f, T) >= need

(* The length of the smallest prefix of the entries of f, sorted by        *)
(* descending count, whose counts add up to nine tenths of the total.      *)
SmallestPrefix(f) ==
    CHOOSE k \in 0..Cardinality(DOMAIN f) :
        /\ Covers(f, k, NineTenths(MapTotal(f)))
        /\ \A j \in 0..(k - 1) : ~Covers(f, j, NineTenths(MapTotal(f)))

(* C32: the number of unique opcodes to cover 90% of the instructions is   *)
(* the length of the smallest prefix of the opcodes sorted by descending   *)
(* count whose counts add up to at least nine tenths of the total          *)
(* instruction count, rounded up; it is 1, with a total of 3 and one       *)
(* thread invoked, for one work-item that executes three adds.  The 90%    *)
(* branch count is the same prefix of the branch lines sorted by           *)
(* descending length of their sequences.                                   *)
C32_SmallestPrefix ==
    [][Emits =>
          /\ plugin'.report.total_instruction_count = MapTotal(plugin.agg.computeOps)
          /\ plugin'.report.major_operations = SmallestPrefix(plugin.agg.computeOps)
          /\ plugin'.report.unique_branch_addresses
                 = SmallestPrefix(BranchLengths(plugin.agg.branchOps))
          /\ (/\ plugin.agg.computeOps = [EmptyCounts(Opcodes) EXCEPT !["add"] = 3]
              /\ hist.mBegun = 1)
                 => /\ plugin'.report.major_operations = 1
                    /\ plugin'.report.total_instruction_count = 3
                    /\ plugin'.report.threads_invoked = 1]_vars

(* A work-item has executed 21 branches and 2 adds: the branches alone     *)
(* are 21 of the 23 instructions, and of the two branch lines the one with *)
(* 20 outcomes covers 19 of the 21.                                        *)
C32_Witness ==
    /\ plugin.report.emitted
    /\ plugin.report.total_instruction_count = 23
    /\ plugin.report.major_operations = 1
    /\ plugin.report.unique_branches = 2
    /\ plugin.report.unique_branch_addresses = 1

(* How often each address of ops occurs in it.                             *)
Accesses(ops) == [a \in Range(ops) |-> Count(ops, a)]

(* C33: the 90% memory footprint is the length of the smallest prefix of   *)
(* the distinct addresses sorted by descending access count whose counts   *)
(* add up to at least nine tenths of the memory access count, rounded up;  *)
(* it is at least 1 and at most the total memory footprint when memoryOps  *)
(* is not empty, and 0 when it is.                                         *)
C33_FootprintPrefix ==
    [][Emits =>
          LET ops == plugin.agg.memoryOps
              footprint90 == plugin'.report.unique_memory_addresses
          IN  /\ plugin'.report.memory_access_count = Len(ops)
              /\ plugin'.report.total_memory_footprint = Cardinality(Range(ops))
              /\ footprint90 = SmallestPrefix(Accesses(ops))
              /\ ops # << >> =>
                     /\ 1 <= footprint90
                     /\ footprint90 <= plugin'.report.total_memory_footprint
              /\ ops = << >> => footprint90 = 0]_vars

(* Ten accesses to four addresses, nine of them to three.                  *)
C33_Witness ==
    /\ plugin.report.emitted
    /\ plugin.report.memory_access_count = 10
    /\ plugin.report.total_memory_footprint = 4
    /\ plugin.report.unique_memory_addresses = 3

(* The i-th smallest entry of v, i from 1: fewer than i entries are below  *)
(* it and at least i are not above it.                                     *)
Ranked(v, i) ==
    CHOOSE x \in Range(v) :
        /\ Cardinality({j \in DOMAIN v : v[j] < x}) < i
        /\ Cardinality({j \in DOMAIN v : v[j] <= x}) >= i

(* With a the entries of v in ascending order, a[0] the first: the half of *)
(* a[n/2-1] + a[n/2], rounded down, for an even n and a[n/2] for an odd n. *)
Middle(v) ==
    LET n == Len(v)
    IN  IF n % 2 = 0
        THEN (Ranked(v, n \div 2) + Ranked(v, n \div 2 + 1)) \div 2
        ELSE Ranked(v, n \div 2 + 1)

(* C34: the median reported of instructionsBetweenBarriers and of          *)
(* instructionsPerWorkitem, when not empty, is the middle of its entries   *)
(* sorted ascending (a[n/2] for an odd length n, the half of               *)
(* a[n/2-1] + a[n/2] rounded down for an even one), whatever the order     *)
(* they were appended in.                                                  *)
C34_Median ==
    [][Emits =>
          /\ plugin'.report.itb_median = Middle(plugin.agg.instructionsToBarrier)
          /\ plugin'.report.ipt_median = Middle(plugin.agg.instructionsPerWorkitem)]_vars

(* Four work-items of 3, 0, 2 and 1 instructions, appended in that order:  *)
(* the median is the half of 1 + 2, rounded down.                          *)
C34_Witness ==
    /\ plugin.report.emitted
    /\ hist.mTrue = << 3, 0, 2, 1 >>
    /\ hist.barriers = 0
    /\ plugin.report.ipt_median = 1
    /\ plugin.report.itb_median = 1

-----------------------------------------------------------------------------
(* Properties of the branch history patterns.                              *)

(* C35: for a branch line whose sequence of outcomes has a length L of at  *)
(* least m, L - m + 1 windows are counted: the occurrences of the line's   *)
(* patterns add up to L - m + 1, and N is the sum of L - m + 1 over the    *)
(* lines of at least m outcomes.                                           *)
C35_WindowsCounted ==
    LET b == plugin.agg.branchOps
        long == {l \in Lines : Len(b[l]) >= m}
    IN  /\ \A l \in long : MapTotal(H(b[l])) = Len(b[l]) - m + 1
        /\ WindowCount(b, LongLines(b)) = MapSum([l \in long |-> Len(b[l]) - m + 1], long)

(* Two lines of 20 and 17 outcomes, the first with fewer patterns than     *)
(* windows: 5 and 2 windows, 7 in all.                                     *)
C35_Witness ==
    LET b == plugin.agg.branchOps
    IN  /\ Len(b[17]) = m + 4 /\ Len(b[42]) = m + 1
        /\ MapSize(H(b[17])) = 2
        /\ MapTotal(H(b[17])) = 5
        /\ WindowCount(b, LongLines(b)) = 7

-----------------------------------------------------------------------------
(* Properties of the host-transfer log, under SpecHost.                    *)

(* C36: the pending counter is never above the length of hostToDeviceCopy, *)
(* so that every index end_of_list - i the loop of kernelBegin would use   *)
(* is one of the list, also when the list is empty.                        *)
C36_PendingWithinList ==
    LET n == plugin.m_numberOfHostToDeviceCopiesBeforeKernelNamed
        size == Len(plugin.m_hostToDeviceCopy)
        end_of_list == size - 1
    IN  /\ 0 <= n /\ n <= size
        /\ \A i \in 0..(n - 1) : end_of_list - i \in 0..(size - 1)

(* A kernel began with the list empty; the stores made since its end are   *)
(* all pending.                                                            *)
C36_Witness ==
    /\ hist.invocations = 1
    /\ hist.storesSinceBegin = 2
    /\ plugin.m_hostToDeviceCopy = << "K1", "K1" >>
    /\ plugin.m_numberOfHostToDeviceCopiesBeforeKernelNamed = 2

(* The step delivers no hostMemoryStore, no hostMemoryLoad and no          *)
(* kernelBegin.                                                            *)
NoTransferNoBegin ==
    /\ hist'.nStores = hist.nStores
    /\ hist'.nLoads = hist.nLoads
    /\ hist'.invocations = hist.invocations

(* C37: the host-transfer log lives as long as the plugin and only grows:  *)
(* hostToDeviceCopy has one entry for every hostMemoryStore and            *)
(* deviceToHostCopy one for every hostMemoryLoad since construction, and   *)
(* kernelEnd and the events of work-groups, work-items, instructions and   *)
(* memory accesses change neither list nor the pending counter.            *)
C37_LogOnlyGrows ==
    [][/\ Len(plugin'.m_hostToDeviceCopy) = hist'.nStores
       /\ Len(plugin'.m_deviceToHostCopy) = hist'.nLoads
       /\ NoTransferNoBegin =>
              /\ plugin'.m_hostToDeviceCopy = plugin.m_hostToDeviceCopy
              /\ plugin'.m_deviceToHostCopy = plugin.m_deviceToHostCopy
              /\ plugin'.m_numberOfHostToDeviceCopiesBeforeKernelNamed
                     = plugin.m_numberOfHostToDeviceCopiesBeforeKernelNamed]_vars

(* Two invocations were reported, the first with memory accesses, and the  *)
(* log holds the three stores and two loads made before and between them.  *)
C37_Witness ==
    /\ hist.invocations = 2
    /\ plugin.report.emitted
    /\ hist.mem > 0
    /\ plugin.m_hostToDeviceCopy = << "K1", "K1", "K2" >>
    /\ plugin.m_deviceToHostCopy = << "", "K1" >>

-----------------------------------------------------------------------------
(* Properties of the barrier segments, under SpecMerge.                    *)

(* C38: every instruction executed is counted in exactly one barrier       *)
(* segment: at kernelEnd the entries of instructionsBetweenBarriers add up *)
(* to the total instruction count, whatever the order of the events, also  *)
(* when the work-items of a work-group take turns at a barrier on one      *)
(* worker.                                                                 *)
C38_SegmentsAddUp ==
    [][Emits =>
          /\ plugin'.report.total_instruction_count = hist.mInstr
          /\ SeqSum(plugin.agg.instructionsToBarrier) = hist.mInstr]_vars

-----------------------------------------------------------------------------
(* Properties of the load and store counts.                                *)

(* The loads and stores of r, a WorkerState or the aggregate, counted four *)
(* ways: by label, by reorder distance, by opcode, and the accesses to     *)
(* Local, Global and Constant memory among them.                           *)
LoadsAndStores(r) == r.computeOps["load"] + r.computeOps["store"]

CountedAlike(r, accesses) ==
    /\ MapTotal(r.loadInstructionLabels) + MapTotal(r.storeInstructionLabels)
           = LoadsAndStores(r)
    /\ Len(r.instructionsBetweenLoadOrStore) = LoadsAndStores(r)
    /\ accesses <= LoadsAndStores(r)

(* C39: in every state of a worker the counts of the load labels and of    *)
(* the store labels add up to the length of instructionsBetweenLoadOrStore *)
(* and to computeOps of load plus computeOps of store, and the Global,     *)
(* Local and Constant accesses together are no more than that; the same    *)
(* holds of the aggregate of an invocation after any number of merges.     *)
C39_LoadsAndStoresAgree ==
    /\ \A w \in Workers :
           LET ws == plugin.m_state[w]
           IN  CountedAlike(ws, ws.global_memory_access_count
                                   + ws.local_memory_access_count
                                   + ws.constant_memory_access_count)
    /\ kernel # "none" =>
           CountedAlike(plugin.agg, plugin.agg.global_memory_access
                                        + plugin.agg.local_memory_access
                                        + plugin.agg.constant_memory_access)

(* Two work-groups were merged: two stores of the one, two loads of the    *)
(* other, one of them from Private memory, so that the accesses counted    *)
(* are fewer than the loads and stores.                                    *)
C39_Witness ==
    /\ AtKernelEnd
    /\ hist.mDone = 3
    /\ MapTotal(plugin.agg.loadInstructionLabels) = 2
    /\ MapTotal(plugin.agg.storeInstructionLabels) = 2
    /\ Len(plugin.agg.instructionsBetweenLoadOrStore) = 4
    /\ plugin.agg.global_memory_access = 1
    /\ plugin.agg.local_memory_access = 1
    /\ plugin.agg.constant_memory_access = 1

(* The entries the step appends to the sequence c: none when the step      *)
(* replaces c by an empty one.                                             *)
AppendedTo(c, after) ==
    IF Len(after) >= Len(c) /\ SubSeq(after, 1, Len(c)) = c
    THEN SubSeq(after, Len(c) + 1, Len(after))
    ELSE << >>

(* C40: in every state of a worker workitem_instruction_count is           *)
(* ops_between_load_or_store plus the sum of the entries appended to       *)
(* instructionsBetweenLoadOrStore since the latest workItemBegin: that     *)
(* event sets both counters to 0 and appends nothing, and every other      *)
(* event adds as much to the one as to the other and the entries it        *)
(* appends together.  Every entry appended is at least 1.  The states are  *)
(* those the hooks return in.                                              *)
C40_CountedSinceBegin ==
    [][plugin'.proc = "running" =>
       \A w \in Workers :
          LET ws == plugin.m_state[w]
              after == plugin'.m_state[w]
              appended == AppendedTo(ws.instructionsBetweenLoadOrStore,
                                     after.instructionsBetweenLoadOrStore)
          IN  /\ \A k \in DOMAIN appended : appended[k] >= 1
              /\ IF hist'.wBegun[w] = hist.wBegun[w] + 1
                 THEN /\ after.workitem_instruction_count = 0
                      /\ after.ops_between_load_or_store = 0
                      /\ appended = << >>
                 ELSE after.workitem_instruction_count - ws.workitem_instruction_count
                          = after.ops_between_load_or_store + SeqSum(appended)
                                - ws.ops_between_load_or_store]_vars

(* The second work-item of a group has executed a load and the first one,  *)
(* released from the barrier, an add: of the two entries the worker holds  *)
(* one was appended since the latest workItemBegin.                        *)
C40_Witness ==
    \E w \in Workers :
        /\ hist.wBegun[w] = 2
        /\ plugin.m_state[w].instructionsBetweenLoadOrStore = << 2, 1 >>
        /\ plugin.m_state[w].workitem_instruction_count = 2
        /\ plugin.m_state[w].ops_between_load_or_store = 1

=============================================================================
